---------------------------- MODULE Spec2Model ----------------------------
(***************************************************************************)
(* Focus Shield: the privileged agent (daemon/daemon.cjs), the policy      *)
(* store (store.ts) and the control server (server.ts, mcp.ts, blocker.ts) *)
(* as one state machine.                                                   *)
(*                                                                         *)
(* A domain name is the sequence of its dot-separated labels:              *)
(* "www.twitter.com" is <<"www", "twitter", "com">>.  Time is counted in   *)
(* units of 15 s: the 30 s timers have period SweepPeriod and one minute   *)
(* of allowance is MinuteUnits.                                            *)
(***************************************************************************)
EXTENDS Integers, Sequences, FiniteSets, TLC

\* ------------------------------------------------------------------ bounds

MaxTime == 6      \* the clock runs from 0 to MaxTime
MaxMinutes == 1   \* allowances last 1..MaxMinutes minutes
MaxList == 2      \* entries in a blocklist sent to the agent
LockEnd == 2      \* the date of the earlier of the two hard lockouts
MaxOutside == 4   \* pieces of text in a file outside what the agent wrote
MaxFileTime == 2  \* the clock runs from 0 to MaxFileTime while the files are rewritten
MaxAccess == 6    \* accesses to a delayed domain recorded on one day
MaxDay == 2       \* the date runs from day 0 to day MaxDay
MaxRequests == 2  \* REST requests the control server works on at the same time

\* ------------------------------------------------------- program constants

SweepPeriod == 2
MinuteUnits == 4
MaxToolMinutes == 30

\* ------------------------------------------------------------ domain names

tw == <<"twitter", "com">>
wwwTw == <<"www", "twitter", "com">>
mobileTw == <<"mobile", "twitter", "com">>
upperTw == <<"Twitter", "com">>
yt == <<"youtube", "com">>

Range(s) == {s[i] : i \in DOMAIN s}

\* String.prototype.toLowerCase on one label.
LowerLabel(l) ==
  CASE l = "Twitter" -> "twitter"
    [] l = "WWW" -> "www"
    [] OTHER -> l

toLowerCase(d) == [i \in DOMAIN d |-> LowerLabel(d[i])]

\* domain.startsWith('www.')
startsWithWww(d) == Len(d) >= 2 /\ d[1] = "www"

\* 'www.' + domain
prependWww(d) == <<"www">> \o d

\* domain.toLowerCase().replace(/^www\./, '')
normalizeDomain(d) ==
  LET l == toLowerCase(d)
  IN IF startsWithWww(l) THEN SubSeq(l, 2, Len(l)) ELSE l

\* q === p || q.endsWith('.' + p), on label sequences
isSelfOrSubdomain(q, p) ==
  \/ q = p
  \/ /\ Len(q) > Len(p)
     /\ SubSeq(q, Len(q) - Len(p) + 1, Len(q)) = p

\* String.prototype.includes on the dotted text: labels that end in / start
\* with the two labels of the needle.
LabelEndsWith(l, s) == l = s \/ <<l, s>> \in {<<"notyoutube", "youtube">>, <<"oldreddit", "reddit">>}
LabelStartsWith(l, s) == l = s \/ <<l, s>> \in {<<"community", "com">>, <<"company", "com">>}

includesText(d, a, b) ==
  \E i \in 1..(Len(d) - 1) : LabelEndsWith(d[i], a) /\ LabelStartsWith(d[i + 1], b)

\* the dotted text of e starts with the dotted text of d
isTextPrefix(d, e) ==
  /\ Len(d) <= Len(e)
  /\ Len(d) >= 1
  /\ \A i \in 1..(Len(d) - 1) : d[i] = e[i]
  /\ LabelStartsWith(e[Len(d)], d[Len(d)])

\* ------------------------------------------------------------------- state

VARIABLES
  now,                  \* Date.now(), in time units
  aPhase,               \* agent process: "down", "restored" (startup done, not listening), "serving"
  state,                \* daemon.cjs `state`: blockedDomains, allowances, shieldActive
  stateFile,            \* STATE_PATH on disk: <<>> (no file) or <<state>>
  lastAllowanceCount,   \* daemon.cjs lastAllowanceCount
  lastAllowanceDomains, \* daemon.cjs lastAllowanceDomains
  nextSweep,            \* when the daemon's setInterval fires next
  hostRegion,           \* names between the sentinels of /etc/hosts ({} = no region)
  pfAnchor,             \* content of PF_ANCHOR_PATH: "absent", "static", "disabled", "cleared"
  dynamicRules,         \* DYNAMIC_PF_PATH: rules [ip, domain] (the tcp and the udp line)
  preCrashEffective,    \* history: getDomainsToBlock() at the crash the agent is recovering from
  expiredAt,            \* history: domain -> time its allowance last ended by timer (-1: never)
  sweepCascades,        \* history: domain -> cascades run by the sweep since expiredAt
  blockedDomains,       \* store.ts data.blockedDomains
  allowances,           \* store.ts data.allowances: [domain, expiresAt, grantedMinutes]
  hardLockouts,         \* store.ts data.hardLockouts: [domain, until]
  srvPhase,             \* control server: "stopped", "running"
  shieldActive,         \* server.ts shieldActive
  srvLastAllowanceCount,\* server.ts lastAllowanceCount
  nextTick,             \* when the server's setInterval fires next
  resp,                 \* history: the last response of the control server
  srvExpiredAt,         \* history: domain -> time its stored allowance last ended by timer (-1: never)
  hostsFile,            \* HOSTS_PATH as text: the `content` updateHostsFile reads and writes
  pfConf,               \* /etc/pf.conf as text: the `pfConf` updatePfRules reads and writes
  delayedDomains,       \* store.ts data.delayedDomains
  tokenFile,            \* TOKEN_FILE on disk: <<>> (no file) or its text
  MCP_TOKEN,            \* mcp.ts MCP_TOKEN: <<>> ("", also before the module is loaded) or <<token>>
  sessions,             \* mcp.ts sessions: the ids of the open sessions
  mcpRequest,           \* history: the credentials of the last request to /mcp
  revoking,             \* the agent's /revoke handler: where it is, for which domain, what it did
  beforeDisable,        \* history: the host region before the last /disable and the state after it
  delaySessions,        \* store.ts data.delaySessions
  today,                \* the date, new Date().toISOString().split('T')[0], as a day number
  delayLog,             \* history: the last answer of getDelaySeconds, the accesses recorded today
  pending               \* server.ts: the block / unblock handlers that wait at an await

agentVars == <<aPhase, state, stateFile, lastAllowanceCount, lastAllowanceDomains,
               nextSweep, hostRegion, pfAnchor, dynamicRules,
               preCrashEffective, expiredAt, sweepCascades>>

storeVars == <<blockedDomains, allowances, hardLockouts>>

\* the files as text: the handlers below work on hostRegion and pfAnchor
textVars == <<hostsFile, pfConf>>

\* the remote tool endpoint
mcpVars == <<tokenFile, MCP_TOKEN, sessions, mcpRequest>>

\* what the handlers of the agent, the policy store and the REST surface leave alone
\* the progressive delay
delayVars == <<delaySessions, today, delayLog>>

\* handlers followed statement by statement, and the delay sessions
stepVars == <<revoking, beforeDisable, delayVars, pending>>

sideVars == <<textVars, delayedDomains, mcpVars, stepVars>>

serverVars == <<srvPhase, shieldActive, srvLastAllowanceCount, nextTick, resp, srvExpiredAt>>

\* ------------------------------------------------------------ agent inputs

IPs == {"ip1"}
ResolveOutcomes == SUBSET IPs

\* domains a client names in grant / revoke / enforce-block
AgentDomains == {tw, upperTw}

DomainOrder == <<tw, mobileTw, yt>>

\* the lists a client sends with `blocklist`: up to MaxList entries
BlocklistInputs ==
  {<<>>} \cup
  {<<DomainOrder[i]>> : i \in 1..Len(DomainOrder)} \cup
  (IF MaxList >= 2
     THEN {<<DomainOrder[i], DomainOrder[j]>> : i \in 1..2, j \in 2..3} \ {<<mobileTw, mobileTw>>}
     ELSE {}) \cup
  (IF MaxList >= 3 THEN {DomainOrder} ELSE {})

\* spellings of one canonical domain that a client names in grant / revoke
MirrorDomains == {tw, wwwTw, upperTw}

AllowanceDomains == {toLowerCase(d) : d \in AgentDomains \cup MirrorDomains}

\* ------------------------------------------------------- agent: functions

DefaultState == [blockedDomains |-> <<>>, allowances |-> <<>>, shieldActive |-> TRUE]

\* a loadState that never reads the state file
loadStateWithoutFile(st, file) == st

\* a state file cut short by a crash in the middle of fs.writeFileSync
TornFile == <<[torn |-> TRUE]>>

\* JSON.parse succeeds on the content of the file
isDocument(file) == file # <<>> /\ file # TornFile

\* no file, or JSON.parse throws and the catch keeps the state in memory
loadState(st, file) == IF isDocument(file) THEN file[1] ELSE st

saveStateDefaults(st) == <<DefaultState>>

saveState(st) == <<st>>

\* a getActiveAllowances that still counts an allowance at its expiry instant
getActiveAllowancesAtExpiry(st, t) == SelectSeq(st.allowances, LAMBDA a : a.expiresAt >= t)

getActiveAllowances(st, t) == SelectSeq(st.allowances, LAMBDA a : a.expiresAt > t)

getDomainsToBlock(st, t) ==
  LET allowedDomains == {toLowerCase(a.domain) : a \in Range(getActiveAllowances(st, t))}
  IN SelectSeq(st.blockedDomains, LAMBDA d : toLowerCase(d) \notin allowedDomains)

variantsOf(domain) ==
  {domain}
  \cup (IF ~startsWithWww(domain) THEN {prependWww(domain)} ELSE {})
  \cup (IF includesText(domain, "youtube", "com")
          THEN {<<"m", "youtube", "com">>, <<"music", "youtube", "com">>,
                <<"youtu", "be">>, <<"youtube-nocookie", "com">>}
          ELSE {})
  \cup (IF domain = <<"twitter", "com">> \/ domain = <<"x", "com">>
          THEN {<<"mobile", "twitter", "com">>, <<"mobile", "x", "com">>}
          ELSE {})
  \cup (IF includesText(domain, "reddit", "com")
          THEN {<<"old", "reddit", "com">>, <<"new", "reddit", "com">>, <<"i", "reddit", "com">>}
          ELSE {})

collectAllDomainsWithVariants(domains) == UNION {variantsOf(d) : d \in domains}

\* the region updateHostsFile leaves between the sentinels
updateHostsFile(st, t) ==
  LET allDomains == collectAllDomainsWithVariants(Range(getDomainsToBlock(st, t)))
  IN IF st.shieldActive /\ allDomains # {} THEN allDomains ELSE {}

\* the anchor content refreshBlocking writes
refreshedAnchor(st) == IF st.shieldActive THEN "static" ELSE "disabled"

\* blockDomainIPs: ips is what the resolver returned for domain and www.domain
blockDomainIPs(rules, domain, ips) ==
  rules \cup {[ip |-> ip, domain |-> domain] : ip \in
                {i \in ips : ~\E r \in rules : r.ip = i /\ isTextPrefix(domain, r.domain)}}

\* unblockDomainIPs: drops every line that includes "# domain"
unblockDomainIPs(rules, domain) == {r \in rules : ~isTextPrefix(domain, r.domain)}

activeDomains(st, t) == {a.domain : a \in Range(getActiveAllowances(st, t))}

RECURSIVE blockAll(_, _, _)
\* the sweep's loop over expiredDomains
blockAll(rules, domains, ips) ==
  IF domains = {} THEN rules
  ELSE LET d == CHOOSE x \in domains : TRUE
       IN blockAll(blockDomainIPs(rules, d, ips), domains \ {d}, ips)

\* ------------------------------------------------ agent: the host file as text

\* The text of a file is the sequence of its pieces: a line break, a run of
\* other characters that holds no sentinel, a sentinel, a line of the region.
Nl == [k |-> "nl"]
Txt == [k |-> "text"]
MARKER_START == [k |-> "start"]
MARKER_END == [k |-> "end"]
generatedLine(t) == [k |-> "generated", t |-> t]
blockingLine(n) == [k |-> "blocking", n |-> n]
v4Line(name) == [k |-> "0.0.0.0", name |-> name]
v6Line(name) == [k |-> "::", name |-> name]

\* /etc/hosts of a fresh machine: "127.0.0.1 localhost\n"
PristineHosts == <<Txt, Nl>>

\* String.prototype.indexOf, counted from 1; 0 when the piece is not there
indexOf(content, piece) ==
  IF \E i \in DOMAIN content : content[i] = piece
    THEN CHOOSE i \in DOMAIN content :
           content[i] = piece /\ \A j \in 1..(i - 1) : content[j] # piece
    ELSE 0

RECURSIVE trimEnd(_)
\* String.prototype.trimEnd
trimEnd(content) ==
  IF content # <<>> /\ content[Len(content)] = Nl
    THEN trimEnd(SubSeq(content, 1, Len(content) - 1))
    ELSE content

\* a removal of the existing block that never finds it
removeExistingBlockNever(content) == content

\* content.slice(0, startIdx) + content.slice(endIdx + MARKER_END.length)
removeExistingBlock(content) ==
  LET startIdx == indexOf(content, MARKER_START)
      endIdx == indexOf(content, MARKER_END)
  IN IF startIdx # 0 /\ endIdx # 0
       THEN SubSeq(content, 1, startIdx - 1) \o SubSeq(content, endIdx + 1, Len(content))
       ELSE content

\* the names one blocklist entry adds, in the order of the code
variantList(domain) ==
  <<domain>>
  \o (IF ~startsWithWww(domain) THEN <<prependWww(domain)>> ELSE <<>>)
  \o (IF includesText(domain, "youtube", "com")
        THEN <<(<<"m", "youtube", "com">>), (<<"music", "youtube", "com">>),
               (<<"youtu", "be">>), (<<"youtube-nocookie", "com">>)>>
        ELSE <<>>)
  \o (IF domain = <<"twitter", "com">> \/ domain = <<"x", "com">>
        THEN <<(<<"mobile", "twitter", "com">>), (<<"mobile", "x", "com">>)>>
        ELSE <<>>)
  \o (IF includesText(domain, "reddit", "com")
        THEN <<(<<"old", "reddit", "com">>), (<<"new", "reddit", "com">>),
               (<<"i", "reddit", "com">>)>>
        ELSE <<>>)

RECURSIVE addEach(_, _)
\* Set.prototype.add for each name: a name already in the set keeps its place
addEach(all, names) ==
  IF names = <<>> THEN all
  ELSE addEach(IF names[1] \in Range(all) THEN all ELSE Append(all, names[1]), Tail(names))

RECURSIVE collectAllDomainsList(_)
\* collectAllDomainsWithVariants as Array.from(all): insertion order
collectAllDomainsList(domains) ==
  IF domains = <<>> THEN <<>>
  ELSE addEach(collectAllDomainsList(SubSeq(domains, 1, Len(domains) - 1)),
               variantList(domains[Len(domains)]))

RECURSIVE entryLines(_)
\* `0.0.0.0 ${domain}\n` and `:: ${domain}\n` for each name
entryLines(names) ==
  IF names = <<>> THEN <<>>
  ELSE <<v4Line(names[1]), Nl, v6Line(names[1]), Nl>> \o entryLines(Tail(names))

\* updateHostsFile on the text of the file
updateHostsText(content, st, t) ==
  LET allDomains == collectAllDomainsList(getDomainsToBlock(st, t))
      stripped == trimEnd(removeExistingBlock(content)) \o <<Nl>>
  IN IF st.shieldActive /\ Len(allDomains) > 0
       THEN stripped \o <<Nl, MARKER_START, Nl, generatedLine(t), Nl,
                           blockingLine(Len(allDomains)), Nl>>
                     \o entryLines(allDomains) \o <<MARKER_END, Nl>>
       ELSE stripped

\* the states POST /hosts finds the agent in
fb == <<"facebook", "com">>
notYt == <<"notyoutube", "com">>
HostsBlocklists == {<<>>, <<tw>>, <<fb>>, <<notYt>>}
HostsStates ==
  {[blockedDomains |-> b, allowances |-> <<>>, shieldActive |-> on] :
     b \in HostsBlocklists, on \in BOOLEAN}

\* pieces of the file outside the sentinels
outsidePieces(content) == Len(removeExistingBlock(content))

\* POST /hosts: updateHostsFile() with the state the agent holds
HostsUpdate(st) ==
  /\ hostsFile' = updateHostsText(hostsFile, st, now)
  /\ UNCHANGED <<now, agentVars, storeVars, serverVars, pfConf, delayedDomains, mcpVars, stepVars>>

\* the administrator adds a line break or other text outside the sentinels
HostsEdited(piece, at) ==
  /\ outsidePieces(hostsFile) < Len(PristineHosts) + MaxOutside
  /\ at \in 1..(Len(hostsFile) + 1)
  /\ LET startIdx == indexOf(hostsFile, MARKER_START)
         endIdx == indexOf(hostsFile, MARKER_END)
     IN startIdx # 0 => (at <= startIdx \/ at > endIdx)
  /\ hostsFile' = SubSeq(hostsFile, 1, at - 1) \o <<piece>> \o SubSeq(hostsFile, at, Len(hostsFile))
  /\ UNCHANGED <<now, agentVars, storeVars, serverVars, pfConf, delayedDomains, mcpVars, stepVars>>

\* time passes while nothing runs
FilesClock ==
  /\ now < MaxFileTime
  /\ now' = now + 1
  /\ UNCHANGED <<agentVars, storeVars, serverVars, sideVars>>

\* --------------------------------------------- agent: the filter configuration

\* 'anchor "com.welf.focusshield"', 'load anchor "com.welf.focusshield" from ...'
\* and the '# cc-focus blocking anchor' of enable-pf.sh, each a line of its own
AnchorLine == [k |-> "anchor"]
LoadLine == [k |-> "load anchor"]
CommentLine == [k |-> "comment"]

\* /etc/pf.conf of a fresh machine: lines that do not name the anchor
PristinePfConf == <<Txt, Nl>>

\* pfConf.includes('com.welf.focusshield'), grep -q "com.welf.focusshield"
includesAnchorName(conf) == \E i \in DOMAIN conf : conf[i] \in {AnchorLine, LoadLine}

\* an updatePfRules that appends the reference without looking
updatePfConfAlways(conf) == conf \o <<Nl, AnchorLine, Nl, LoadLine, Nl>>

\* updatePfRules on the text of /etc/pf.conf
updatePfConf(conf) ==
  IF ~includesAnchorName(conf)
    THEN conf \o <<Nl, AnchorLine, Nl, LoadLine, Nl>>
    ELSE conf

\* enable-pf.sh on the text of /etc/pf.conf
enablePfScript(conf) ==
  IF ~includesAnchorName(conf)
    THEN conf \o <<Nl, CommentLine, Nl, AnchorLine, Nl, LoadLine, Nl>>
    ELSE conf

\* pieces of the file that are plain text or line breaks
plainPieces(conf) == Len(SelectSeq(conf, LAMBDA x : x \in {Txt, Nl}))

\* updatePfRules(rules), from refreshBlocking, POST /pf and POST /clear
PfUpdate ==
  /\ pfConf' = updatePfConf(pfConf)
  /\ UNCHANGED <<now, agentVars, storeVars, serverVars, hostsFile, delayedDomains, mcpVars, stepVars>>

\* sudo ./enable-pf.sh
PfScript ==
  /\ pfConf' = enablePfScript(pfConf)
  /\ UNCHANGED <<now, agentVars, storeVars, serverVars, hostsFile, delayedDomains, mcpVars, stepVars>>

\* the administrator adds a line break or other text at either end of the file
PfEdited(piece, atEnd) ==
  /\ plainPieces(pfConf) < Len(PristinePfConf) + MaxOutside
  /\ pfConf' = IF atEnd THEN Append(pfConf, piece) ELSE <<piece>> \o pfConf
  /\ UNCHANGED <<now, agentVars, storeVars, serverVars, hostsFile, delayedDomains, mcpVars, stepVars>>

\* --------------------------------------------------------- agent: startup

AgentCrash ==
  /\ UNCHANGED <<storeVars, serverVars, sideVars>>
  /\ aPhase = "serving"
  /\ aPhase' = "down"
  /\ preCrashEffective' = Range(getDomainsToBlock(state, now))
  /\ state' = DefaultState
  /\ lastAllowanceCount' = 0
  /\ lastAllowanceDomains' = {}
  /\ UNCHANGED <<now, stateFile, nextSweep, hostRegion, pfAnchor, dynamicRules,
                 expiredAt, sweepCascades>>

\* loadState(); lastAllowanceCount = ...; if (shieldActive && blockedDomains.length > 0) refreshBlocking()
AgentStart ==
  /\ UNCHANGED <<storeVars, serverVars, sideVars>>
  /\ aPhase = "down"
  /\ LET st == loadState(state, stateFile)
     IN /\ state' = st
        /\ lastAllowanceCount' = Len(getActiveAllowances(st, now))
        /\ IF st.shieldActive /\ Len(st.blockedDomains) > 0
             THEN /\ hostRegion' = updateHostsFile(st, now)
                  /\ pfAnchor' = refreshedAnchor(st)
             ELSE UNCHANGED <<hostRegion, pfAnchor>>
  /\ nextSweep' = now + SweepPeriod
  /\ aPhase' = "restored"
  /\ UNCHANGED <<now, stateFile, lastAllowanceDomains, dynamicRules,
                 preCrashEffective, expiredAt, sweepCascades>>

\* server.listen(SOCKET_PATH)
AgentListen ==
  /\ UNCHANGED <<storeVars, serverVars, sideVars>>
  /\ aPhase = "restored"
  /\ aPhase' = "serving"
  /\ preCrashEffective' = {}
  /\ UNCHANGED <<now, state, stateFile, lastAllowanceCount, lastAllowanceDomains,
                 nextSweep, hostRegion, pfAnchor, dynamicRules, expiredAt, sweepCascades>>

\* --------------------------------------------------------- agent: IPC ops

history == <<preCrashEffective, expiredAt, sweepCascades>>

grantedState(st, domain, minutes, t) ==
  [st EXCEPT !.allowances =
     Append(SelectSeq(st.allowances, LAMBDA a : toLowerCase(a.domain) # toLowerCase(domain)),
            [domain |-> toLowerCase(domain), expiresAt |-> t + minutes * MinuteUnits])]

revokedStateKeeps(st, domain) == st

revokedState(st, domain) ==
  [st EXCEPT !.allowances =
     SelectSeq(st.allowances, LAMBDA a : toLowerCase(a.domain) # toLowerCase(domain))]

AgentBlocklist(domains) ==
  /\ UNCHANGED <<storeVars, serverVars, sideVars>>
  /\ aPhase = "serving"
  /\ LET st == [state EXCEPT !.blockedDomains = domains]
     IN /\ state' = st
        /\ stateFile' = saveState(st)
        /\ hostRegion' = updateHostsFile(st, now)
        /\ pfAnchor' = refreshedAnchor(st)
  /\ UNCHANGED <<now, aPhase, lastAllowanceCount, lastAllowanceDomains, nextSweep,
                 dynamicRules, history>>

AgentGrant(domain, minutes) ==
  /\ UNCHANGED <<storeVars, serverVars, sideVars>>
  /\ aPhase = "serving"
  /\ LET st == grantedState(state, domain, minutes, now)
     IN /\ state' = st
        /\ lastAllowanceCount' = Len(st.allowances)
        /\ stateFile' = saveState(st)
        /\ dynamicRules' = unblockDomainIPs(dynamicRules, toLowerCase(domain))
        /\ hostRegion' = updateHostsFile(st, now)
        /\ pfAnchor' = refreshedAnchor(st)
  \* a new grant supersedes the record of the domain's earlier expiry
  /\ expiredAt' = [expiredAt EXCEPT ![toLowerCase(domain)] = -1]
  /\ sweepCascades' = [sweepCascades EXCEPT ![toLowerCase(domain)] = 0]
  /\ UNCHANGED <<now, aPhase, lastAllowanceDomains, nextSweep, preCrashEffective>>

AgentRevoke(domain, ips) ==
  /\ UNCHANGED <<storeVars, serverVars, sideVars>>
  /\ aPhase = "serving"
  /\ LET st == revokedState(state, domain)
     IN /\ state' = st
        /\ stateFile' = saveState(st)
        /\ hostRegion' = updateHostsFile(st, now)
        /\ pfAnchor' = refreshedAnchor(st)
  /\ dynamicRules' = blockDomainIPs(dynamicRules, toLowerCase(domain), ips)
  /\ UNCHANGED <<now, aPhase, lastAllowanceCount, lastAllowanceDomains, nextSweep, history>>

AgentEnforceBlock(domain, ips) ==
  /\ UNCHANGED <<storeVars, serverVars, sideVars>>
  /\ aPhase = "serving"
  /\ dynamicRules' = blockDomainIPs(dynamicRules, toLowerCase(domain), ips)
  /\ UNCHANGED <<now, aPhase, state, stateFile, lastAllowanceCount, lastAllowanceDomains,
                 nextSweep, hostRegion, pfAnchor, history>>

shieldKeepsOnly(st, on) ==
  [blockedDomains |-> <<>>, allowances |-> <<>>, shieldActive |-> on]

shieldSet(st, on) == [st EXCEPT !.shieldActive = on]

setShield(on) ==
  /\ UNCHANGED <<storeVars, serverVars>>
  /\ aPhase = "serving"
  /\ LET st == shieldSet(state, on)
     IN /\ state' = st
        /\ stateFile' = saveState(st)
        /\ hostRegion' = updateHostsFile(st, now)
        /\ pfAnchor' = refreshedAnchor(st)
  /\ UNCHANGED <<now, aPhase, lastAllowanceCount, lastAllowanceDomains, nextSweep,
                 dynamicRules, history>>

AgentSetShield(on) == setShield(on) /\ UNCHANGED sideVars

\* /disable, with the region it found and the state it left on record
AgentDisableNoted ==
  /\ setShield(FALSE)
  /\ beforeDisable' = [shield |-> state.shieldActive, region |-> hostRegion,
                       after |-> shieldSet(state, FALSE)]
  /\ UNCHANGED <<textVars, delayedDomains, mcpVars, revoking, delayVars, pending>>

AgentEnable == AgentSetShield(TRUE)

AgentDisable == AgentSetShield(FALSE)

AgentClear ==
  /\ UNCHANGED <<storeVars, serverVars, sideVars>>
  /\ aPhase = "serving"
  /\ LET st == [state EXCEPT !.shieldActive = FALSE, !.allowances = <<>>]
     IN /\ state' = st
        /\ stateFile' = saveState(st)
        /\ hostRegion' = updateHostsFile(st, now)
  /\ pfAnchor' = "cleared"
  /\ UNCHANGED <<now, aPhase, lastAllowanceCount, lastAllowanceDomains, nextSweep,
                 dynamicRules, history>>

\* ------------------------------------------------- agent: the disk misbehaves

\* saveState when fs.writeFileSync throws: the catch logs and returns
saveStateFails(file) == file

\* the answer of an agent op, as its client reads it
agentAnswers(op, status) ==
  resp' = [op |-> op, status |-> status, until |-> -1, ipc |-> FALSE]

serverVarsButResp == <<srvPhase, shieldActive, srvLastAllowanceCount, nextTick, srvExpiredAt>>

\* POST /blocklist while the state file cannot be written
AgentBlocklistWriteFails(domains) ==
  /\ aPhase = "serving"
  /\ LET st == [state EXCEPT !.blockedDomains = domains]
     IN /\ state' = st
        /\ stateFile' = saveStateFails(stateFile)
        /\ hostRegion' = updateHostsFile(st, now)
        /\ pfAnchor' = refreshedAnchor(st)
  /\ agentAnswers("/blocklist", "success")
  /\ UNCHANGED <<now, aPhase, lastAllowanceCount, lastAllowanceDomains, nextSweep,
                 dynamicRules, history, storeVars, serverVarsButResp, sideVars>>

\* POST /grant while the state file cannot be written
AgentGrantWriteFails(domain, minutes) ==
  /\ aPhase = "serving"
  /\ LET st == grantedState(state, domain, minutes, now)
     IN /\ state' = st
        /\ lastAllowanceCount' = Len(st.allowances)
        /\ stateFile' = saveStateFails(stateFile)
        /\ dynamicRules' = unblockDomainIPs(dynamicRules, toLowerCase(domain))
        /\ hostRegion' = updateHostsFile(st, now)
        /\ pfAnchor' = refreshedAnchor(st)
  /\ expiredAt' = [expiredAt EXCEPT ![toLowerCase(domain)] = -1]
  /\ sweepCascades' = [sweepCascades EXCEPT ![toLowerCase(domain)] = 0]
  /\ agentAnswers("/grant", "success")
  /\ UNCHANGED <<now, aPhase, lastAllowanceDomains, nextSweep, preCrashEffective,
                 storeVars, serverVarsButResp, sideVars>>

\* the contents fs.writeFileSync(STATE_PATH, ...) can leave when the process dies in it
interruptedWrite(file, st) == {file, saveState(st), TornFile}

\* POST /blocklist, and the process dies inside saveState
AgentCrashInSave(domains) ==
  /\ aPhase = "serving"
  /\ aPhase' = "down"
  /\ stateFile' \in interruptedWrite(stateFile, [state EXCEPT !.blockedDomains = domains])
  /\ preCrashEffective' = Range(getDomainsToBlock(state, now))
  /\ state' = DefaultState
  /\ lastAllowanceCount' = 0
  /\ lastAllowanceDomains' = {}
  /\ UNCHANGED <<now, nextSweep, hostRegion, pfAnchor, dynamicRules, expiredAt,
                 sweepCascades, storeVars, serverVars, sideVars>>

\* ------------------------------------------- agent: the host file rewrite fails

\* updateHostsFile throws (readFileSync or writeFileSync on HOSTS_PATH): the
\* region stays, refreshBlocking stops there, the request's catch answers 500
updateHostsFileThrows(region) == region

\* POST /blocklist while /etc/hosts cannot be rewritten
AgentBlocklistHostsFails(domains) ==
  /\ aPhase = "serving"
  /\ LET st == [state EXCEPT !.blockedDomains = domains]
     IN /\ state' = st
        /\ stateFile' = saveState(st)
        /\ hostRegion' = updateHostsFileThrows(hostRegion)
  /\ agentAnswers("/blocklist", "500")
  /\ UNCHANGED <<now, aPhase, lastAllowanceCount, lastAllowanceDomains, nextSweep,
                 pfAnchor, dynamicRules, history, storeVars, serverVarsButResp, sideVars>>

\* POST /enable or POST /disable while /etc/hosts cannot be rewritten
AgentSetShieldHostsFails(on) ==
  /\ aPhase = "serving"
  /\ LET st == [state EXCEPT !.shieldActive = on]
     IN /\ state' = st
        /\ stateFile' = saveState(st)
        /\ hostRegion' = updateHostsFileThrows(hostRegion)
  /\ agentAnswers(IF on THEN "/enable" ELSE "/disable", "500")
  /\ UNCHANGED <<now, aPhase, lastAllowanceCount, lastAllowanceDomains, nextSweep,
                 pfAnchor, dynamicRules, history, storeVars, serverVarsButResp, sideVars>>

\* ---------------------------------------- agent: best-effort surfaces fail

\* dig, pfctl -k, osascript, dscacheutil / killall -HUP
BestEffort == {"resolve", "kill", "tabs", "flush"}

\* what fails during one op: one surface, or all four
FailureInputs == {{f} : f \in BestEffort} \cup {BestEffort}

\* a failure of kill that is not caught where it happens
uncaughtKill(failed) == failed \cap {"kill"}

\* the failures that leave their function as an exception: every execSync of
\* the four surfaces sits in a try whose catch logs or ignores
uncaught(failed) == {}

\* resolveDomainIPs: the catch returns []
resolveDomainIPs(ips, failed) == IF "resolve" \in failed THEN {} ELSE ips

\* POST /revoke while the surfaces in `failed` fail
AgentRevokeSurfacesFail(domain, ips, failed) ==
  /\ aPhase = "serving"
  /\ failed # {}
  /\ LET st == revokedState(state, domain)
         thrown == uncaught(failed)
     IN /\ state' = st
        /\ stateFile' = saveState(st)
        /\ hostRegion' = updateHostsFile(st, now)
        /\ pfAnchor' = IF "flush" \in thrown THEN pfAnchor ELSE refreshedAnchor(st)
        /\ dynamicRules' = IF thrown \cap {"flush", "resolve"} # {} THEN dynamicRules
                           ELSE blockDomainIPs(dynamicRules, toLowerCase(domain),
                                               resolveDomainIPs(ips, failed))
        /\ agentAnswers("/revoke", IF thrown = {} THEN "success" ELSE "500")
  /\ UNCHANGED <<now, aPhase, lastAllowanceCount, lastAllowanceDomains, nextSweep, history,
                 storeVars, serverVarsButResp, sideVars>>

\* POST /enforce-block while the surfaces in `failed` fail
AgentEnforceBlockSurfacesFail(domain, ips, failed) ==
  /\ aPhase = "serving"
  /\ failed # {}
  /\ LET thrown == uncaught(failed)
     IN /\ dynamicRules' = IF "resolve" \in thrown THEN dynamicRules
                           ELSE blockDomainIPs(dynamicRules, toLowerCase(domain),
                                               resolveDomainIPs(ips, failed))
        /\ agentAnswers("/enforce-block", IF thrown = {} THEN "success" ELSE "500")
  /\ UNCHANGED <<now, aPhase, state, stateFile, lastAllowanceCount, lastAllowanceDomains,
                 nextSweep, hostRegion, pfAnchor, history, storeVars, serverVarsButResp, sideVars>>

\* ------------------------------------------------------ agent: expiry sweep

expiredDomains(st, last, t) == last \ activeDomains(st, t)

\* ------------------------------------ agent: /revoke, statement by statement

\* the statements of the handler in the order of the code
RevokeOrder == <<"filter", "save", "hosts", "rules", "kill", "tabs", "flush">>

revokeAdvance(from, effect) ==
  /\ aPhase = "serving"
  /\ revoking.pc = from
  /\ revoking' = [revoking EXCEPT !.pc = effect, !.done = Append(@, effect)]

agentSurfaceAndRules == <<state, stateFile, hostRegion, pfAnchor, dynamicRules>>

revokeFrame == <<now, aPhase, lastAllowanceCount, lastAllowanceDomains, nextSweep, history,
                 storeVars, textVars, delayedDomains, mcpVars, beforeDisable, delayVars, pending>>

\* state.allowances = state.allowances.filter(...)
RevokeFilter(domain) ==
  /\ aPhase = "serving"
  /\ revoking.pc = "idle"
  /\ revoking' = [pc |-> "filter", domain |-> domain, done |-> <<"filter">>]
  /\ state' = revokedState(state, domain)
  /\ UNCHANGED <<revokeFrame, serverVars, stateFile, hostRegion, pfAnchor, dynamicRules>>

\* saveState()
RevokeSave ==
  /\ revokeAdvance("filter", "save")
  /\ stateFile' = saveState(state)
  /\ UNCHANGED <<revokeFrame, serverVars, state, hostRegion, pfAnchor, dynamicRules>>

\* refreshBlocking()
RevokeRefresh ==
  /\ revokeAdvance("save", "hosts")
  /\ hostRegion' = updateHostsFile(state, now)
  /\ pfAnchor' = refreshedAnchor(state)
  /\ UNCHANGED <<revokeFrame, serverVars, state, stateFile, dynamicRules>>

\* blockDomainIPs(domain.toLowerCase())
RevokeBlockIPs(ips) ==
  /\ revokeAdvance("hosts", "rules")
  /\ dynamicRules' = blockDomainIPs(dynamicRules, toLowerCase(revoking.domain), ips)
  /\ UNCHANGED <<revokeFrame, serverVars, state, stateFile, hostRegion, pfAnchor>>

\* killConnectionsToDomain, closeBrowserTabs, flushDnsCache
RevokeKill ==
  /\ revokeAdvance("rules", "kill")
  /\ UNCHANGED <<revokeFrame, serverVars, agentSurfaceAndRules>>

RevokeTabs ==
  /\ revokeAdvance("kill", "tabs")
  /\ UNCHANGED <<revokeFrame, serverVars, agentSurfaceAndRules>>

RevokeFlush ==
  /\ revokeAdvance("tabs", "flush")
  /\ UNCHANGED <<revokeFrame, serverVars, agentSurfaceAndRules>>

\* res.end(JSON.stringify({ success: true }))
RevokeRespond ==
  /\ aPhase = "serving"
  /\ revoking.pc = "flush"
  /\ revoking' = [revoking EXCEPT !.pc = "idle"]
  /\ agentAnswers("/revoke", "success")
  /\ UNCHANGED <<revokeFrame, serverVarsButResp, agentSurfaceAndRules>>

\* the event loop runs one handler at a time
idle == revoking.pc = "idle"

checkAllowanceExpiry(ips) ==
  /\ UNCHANGED <<storeVars, serverVars, sideVars>>
  /\ aPhase = "serving"
  /\ now = nextSweep
  /\ LET active == getActiveAllowances(state, now)
         expired == expiredDomains(state, lastAllowanceDomains, now)
         st == [state EXCEPT !.allowances = active]
     IN /\ state' = st
        /\ IF Len(active) # Len(state.allowances)
             THEN stateFile' = saveState(st)
             ELSE UNCHANGED stateFile
        /\ IF expired # {}
             THEN /\ hostRegion' = updateHostsFile(st, now)
                  /\ pfAnchor' = refreshedAnchor(st)
                  /\ dynamicRules' = blockAll(dynamicRules, expired, ips)
             ELSE UNCHANGED <<hostRegion, pfAnchor, dynamicRules>>
        /\ sweepCascades' = [d \in AllowanceDomains |->
                               IF d \in expired THEN sweepCascades[d] + 1 ELSE sweepCascades[d]]
        /\ lastAllowanceCount' = Len(active)
        /\ lastAllowanceDomains' = activeDomains(state, now)
  /\ nextSweep' = now + SweepPeriod
  /\ UNCHANGED <<now, aPhase, preCrashEffective, expiredAt>>

\* -------------------------------------------------------------------- time

\* allowances of the agent that reach their expiry when the clock shows t
dueAt(st, t) == {a.domain : a \in {x \in Range(st.allowances) : x.expiresAt = t}}

\* the history of an expiry is kept until its deadline
forgotten(d, t) == expiredAt[d] # -1 /\ t > expiredAt[d] + SweepPeriod

AgentTimePasses ==
  /\ aPhase = "serving"
  /\ now < nextSweep
  /\ expiredAt' = [d \in AllowanceDomains |->
                     IF d \in dueAt(state, now + 1) THEN now + 1
                     ELSE IF forgotten(d, now + 1) THEN -1
                     ELSE expiredAt[d]]
  /\ sweepCascades' = [d \in AllowanceDomains |->
                         IF d \in dueAt(state, now + 1) \/ forgotten(d, now + 1)
                           THEN 0 ELSE sweepCascades[d]]
  /\ UNCHANGED <<aPhase, state, stateFile, lastAllowanceCount, lastAllowanceDomains,
                 nextSweep, hostRegion, pfAnchor, dynamicRules, preCrashEffective>>


\* ------------------------------------------------------------------- store

\* DEFAULTS.blockedDomains, abridged to one entry
DefaultBlocked == <<tw>>

\* spellings a caller passes to the store and the control server
StoreDomains == {tw, wwwTw, mobileTw}

\* `until` dates of hard lockouts, on the model's clock
LockDates == {LockEnd, MaxTime + 1}

matchesDomain(query, pattern) == isSelfOrSubdomain(normalizeDomain(query), normalizeDomain(pattern))

\* an isDomainBlocked that finds only exact blocklist entries
isDomainBlockedExactOnly(domain, blocked, allows, t) ==
  /\ normalizeDomain(domain) \in {normalizeDomain(b) : b \in Range(blocked)}
  /\ ~\E a \in Range(allows) : matchesDomain(normalizeDomain(domain), a.domain) /\ a.expiresAt > t

\* an isDomainBlocked for which an allowance is still active at its expiry instant
isDomainBlockedAtExpiry(domain, blocked, allows, t) ==
  /\ \E b \in Range(blocked) : isSelfOrSubdomain(normalizeDomain(domain), normalizeDomain(b))
  /\ ~\E a \in Range(allows) : matchesDomain(normalizeDomain(domain), a.domain) /\ a.expiresAt >= t

isDomainBlocked(domain, blocked, allows, t) ==
  LET normalized == normalizeDomain(domain)
      isInBlocklist == \E b \in Range(blocked) : isSelfOrSubdomain(normalized, normalizeDomain(b))
      hasAllowance == \E a \in Range(allows) : matchesDomain(normalized, a.domain) /\ a.expiresAt > t
  IN isInBlocklist /\ ~hasAllowance

grantAllowance(allows, domain, minutes, t) ==
  Append(SelectSeq(allows, LAMBDA a : a.domain # normalizeDomain(domain)),
         [domain |-> normalizeDomain(domain), expiresAt |-> t + minutes * MinuteUnits,
          grantedMinutes |-> minutes])

revokeAllowance(allows, domain) == SelectSeq(allows, LAMBDA a : a.domain # normalizeDomain(domain))

getEffectivelyBlockedDomains(blocked, allows, t) ==
  LET allowedDomains == {normalizeDomain(a.domain) : a \in {x \in Range(allows) : x.expiresAt > t}}
  IN SelectSeq(blocked, LAMBDA domain :
       ~\E allowed \in allowedDomains : isSelfOrSubdomain(normalizeDomain(domain), allowed))

addBlockedDomain(blocked, domain) ==
  IF normalizeDomain(domain) \in Range(blocked) THEN blocked
  ELSE Append(blocked, normalizeDomain(domain))

removeBlockedDomain(blocked, domain) == SelectSeq(blocked, LAMBDA d : d # normalizeDomain(domain))

\* DEFAULT_DELAYED, abridged to one entry
DefaultDelayed == <<(<<"gmail", "com">>)>>

\* an addDelayedDomain that does not look for the entry first
addDelayedDomainAlways(delayed, domain) == Append(delayed, normalizeDomain(domain))

addDelayedDomain(delayed, domain) ==
  IF normalizeDomain(domain) \in Range(delayed) THEN delayed
  ELSE Append(delayed, normalizeDomain(domain))

removeDelayedDomain(delayed, domain) == SelectSeq(delayed, LAMBDA d : d # normalizeDomain(domain))

\* store.ts getActiveAllowances: the active entries (and the list it leaves stored)
storeActiveAllowances(allows, t) == SelectSeq(allows, LAMBDA a : a.expiresAt > t)

\* Math.ceil(n / d) for n > 0
ceilDiv(n, d) == (n + d - 1) \div d

\* getAllowanceRemaining: minutes left of the first active allowance matching domain
getAllowanceRemaining(allows, domain, t) ==
  LET found == SelectSeq(allows, LAMBDA a :
                 matchesDomain(normalizeDomain(domain), a.domain) /\ a.expiresAt > t)
  IN IF found = <<>> THEN 0 ELSE ceilDiv(found[1].expiresAt - t, MinuteUnits)

addHardLockout(lockouts, domain, until) ==
  Append(SelectSeq(lockouts, LAMBDA l : normalizeDomain(l.domain) # normalizeDomain(domain)),
         [domain |-> normalizeDomain(domain), until |-> until])

removeHardLockout(lockouts, domain) ==
  SelectSeq(lockouts, LAMBDA l : normalizeDomain(l.domain) # normalizeDomain(domain))

\* the lockouts that cover domain and whose date is still ahead
coveringLockouts(lockouts, domain, t) ==
  SelectSeq(lockouts, LAMBDA l :
    isSelfOrSubdomain(normalizeDomain(domain), normalizeDomain(l.domain)) /\ t < l.until)

\* an isHardLocked that finds only lockouts on the domain itself
isHardLockedExactOnly(lockouts, domain, t) ==
  \E l \in Range(lockouts) : normalizeDomain(domain) = normalizeDomain(l.domain) /\ t < l.until

isHardLocked(lockouts, domain, t) ==
  \E l \in Range(lockouts) :
    /\ \/ normalizeDomain(domain) = normalizeDomain(l.domain)
       \/ isSelfOrSubdomain(normalizeDomain(domain), normalizeDomain(l.domain))
    /\ t < l.until

\* lockouts.find(...)?.until ?? null; null is -1
getHardLockoutUntil(lockouts, domain, t) ==
  IF coveringLockouts(lockouts, domain, t) = <<>> THEN -1
  ELSE coveringLockouts(lockouts, domain, t)[1].until

\* ----------------------------------------------------- store: operations

StoreAddBlocked(d) ==
  /\ UNCHANGED <<agentVars, serverVars, sideVars>>
  /\ blockedDomains' = addBlockedDomain(blockedDomains, d)
  /\ UNCHANGED <<now, allowances, hardLockouts>>

StoreRemoveBlocked(d) ==
  /\ UNCHANGED <<agentVars, serverVars, sideVars>>
  /\ blockedDomains' = removeBlockedDomain(blockedDomains, d)
  /\ UNCHANGED <<now, allowances, hardLockouts>>

StoreGrant(d, m) ==
  /\ UNCHANGED <<agentVars, serverVars, sideVars>>
  /\ allowances' = grantAllowance(allowances, d, m, now)
  /\ UNCHANGED <<now, blockedDomains, hardLockouts>>

StoreRevoke(d) ==
  /\ UNCHANGED <<agentVars, serverVars, sideVars>>
  /\ allowances' = revokeAllowance(allowances, d)
  /\ UNCHANGED <<now, blockedDomains, hardLockouts>>

StoreAddDelayed(d) ==
  /\ delayedDomains' = addDelayedDomain(delayedDomains, d)
  /\ UNCHANGED <<now, agentVars, storeVars, serverVars, textVars, mcpVars, stepVars>>

StoreRemoveDelayed(d) ==
  /\ delayedDomains' = removeDelayedDomain(delayedDomains, d)
  /\ UNCHANGED <<now, agentVars, storeVars, serverVars, textVars, mcpVars, stepVars>>

\* ------------------------------------------------ store: progressive delay

gm == <<"gmail", "com">>
wwwGm == <<"www", "gmail", "com">>
DelayDomains == {gm, wwwGm, tw}
DelayCanonical == {normalizeDomain(d) : d \in DelayDomains}

RECURSIVE pow2(_)
pow2(n) == IF n = 0 THEN 1 ELSE 2 * pow2(n - 1)

min(a, b) == IF a <= b THEN a ELSE b

\* sessions.find / sessions.findIndex: the first session of the domain, 0 when none
findIndex(list, normalized) ==
  IF \E i \in 1..Len(list) : list[i].domain = normalized
    THEN CHOOSE i \in 1..Len(list) :
           list[i].domain = normalized /\ \A j \in 1..(i - 1) : list[j].domain # normalized
    ELSE 0

resetNever(list, normalized, date) == list

\* getDelaySeconds: a session of another day is set back in place
resetStale(list, normalized, date) ==
  LET i == findIndex(list, normalized)
  IN IF i # 0 /\ list[i].lastResetDate # date
       THEN [list EXCEPT ![i] = [@ EXCEPT !.accessCount = 0, !.lastResetDate = date]]
       ELSE list

getDelaySeconds(list, domain, date) ==
  LET normalized == normalizeDomain(domain)
      after == resetStale(list, normalized, date)
      i == findIndex(after, normalized)
      count == IF i # 0 THEN after[i].accessCount ELSE 0
  IN [seconds |-> min(10 * pow2(count), 160), sessions |-> after]

recordDelayAccess(list, domain, date, t) ==
  LET normalized == normalizeDomain(domain)
      i == findIndex(list, normalized)
  IN IF i # 0
       THEN [list EXCEPT ![i] =
               [domain |-> normalized, lastAccess |-> t,
                accessCount |-> IF @.lastResetDate # date THEN 1 ELSE @.accessCount + 1,
                lastResetDate |-> date]]
       ELSE Append(list, [domain |-> normalized, lastAccess |-> t, accessCount |-> 1,
                          lastResetDate |-> date])

delayFrame == <<now, agentVars, storeVars, serverVars, textVars, delayedDomains, mcpVars,
                revoking, beforeDisable, pending>>

StoreGetDelaySeconds(d) ==
  /\ LET answer == getDelaySeconds(delaySessions, d, today)
     IN /\ delaySessions' = answer.sessions
        /\ delayLog' = [delayLog EXCEPT !.asked = normalizeDomain(d), !.seconds = answer.seconds]
  /\ UNCHANGED <<delayFrame, today>>

StoreRecordDelayAccess(d) ==
  /\ delayLog.recorded[normalizeDomain(d)] < MaxAccess
  /\ delaySessions' = recordDelayAccess(delaySessions, d, today, now)
  /\ delayLog' = [delayLog EXCEPT !.recorded[normalizeDomain(d)] = @ + 1]
  /\ UNCHANGED <<delayFrame, today>>

\* midnight (UTC): the date changes
DateChanges ==
  /\ today < MaxDay
  /\ today' = today + 1
  /\ delayLog' = [delayLog EXCEPT !.recorded = [d \in DelayCanonical |-> 0]]
  /\ UNCHANGED <<delayFrame, delaySessions>>


StoreGetActiveAllowances ==
  /\ UNCHANGED <<agentVars, serverVars, sideVars>>
  /\ allowances' = storeActiveAllowances(allowances, now)
  /\ UNCHANGED <<now, blockedDomains, hardLockouts>>

StoreAddHardLockout(d, until) ==
  /\ UNCHANGED <<agentVars, serverVars, sideVars>>
  /\ hardLockouts' = addHardLockout(hardLockouts, d, until)
  /\ UNCHANGED <<now, blockedDomains, allowances>>

StoreRemoveHardLockout(d) ==
  /\ UNCHANGED <<agentVars, serverVars, sideVars>>
  /\ hardLockouts' = removeHardLockout(hardLockouts, d)
  /\ UNCHANGED <<now, blockedDomains, allowances>>

StoreTick ==
  /\ now < MaxTime
  /\ now' = now + 1
  /\ UNCHANGED <<storeVars, agentVars, serverVars, sideVars>>

\* ----------------------------------------- control server: calls to the agent

\* blocker.ts isDaemonRunning: GET /status is answered
isDaemonRunning == aPhase = "serving"

\* the agent's state after POST /blocklist {domains} and POST /enable
mirrorAfterEnable(st, domains) == [st EXCEPT !.blockedDomains = domains, !.shieldActive = TRUE]

\* what the server's calls to the agent can change
agentSurface == <<state, stateFile, hostRegion, pfAnchor>>

\* what no handler of the server changes
agentUntouched == <<aPhase, lastAllowanceCount, lastAllowanceDomains, nextSweep,
                    preCrashEffective, expiredAt, sweepCascades>>

\* blocker.ts enableBlocking(domains); its result is isDaemonRunning
enableBlocking(domains) ==
  IF isDaemonRunning
    THEN LET st == mirrorAfterEnable(state, domains)
         IN /\ state' = st
            /\ stateFile' = saveState(st)
            /\ hostRegion' = updateHostsFile(st, now)
            /\ pfAnchor' = refreshedAnchor(st)
    ELSE UNCHANGED agentSurface

\* blocker.ts disableBlocking()
disableBlocking ==
  IF isDaemonRunning
    THEN LET st == [state EXCEPT !.shieldActive = FALSE]
         IN /\ state' = st
            /\ stateFile' = saveState(st)
            /\ hostRegion' = updateHostsFile(st, now)
            /\ pfAnchor' = refreshedAnchor(st)
    ELSE UNCHANGED agentSurface

\* blocker.ts enforceBlockViaDaemon(domain)
enforceBlockViaDaemon(domain, ips) ==
  IF isDaemonRunning
    THEN dynamicRules' = blockDomainIPs(dynamicRules, toLowerCase(domain), ips)
    ELSE UNCHANGED dynamicRules

\* ------------------------------------------------ control server: responses

\* a request body without `domain`
NoDomain == <<>>

StoredAllowanceDomains == {normalizeDomain(d) : d \in StoreDomains}

NoResponse == [op |-> "none", status |-> "none", until |-> -1, ipc |-> FALSE]

\* the record of a grant / unblock request: its answer, the `until` it carries and
\* whether the handler called the agent
response(op, status, until, called) == [op |-> op, status |-> status, until |-> until, ipc |-> called]

\* a new grant supersedes the record of the domain's earlier expiry
grantResetsExpiry(domain) ==
  srvExpiredAt' = [srvExpiredAt EXCEPT ![normalizeDomain(domain)] = -1]

\* --------------------------------------------------- control server: REST

\* start(): enableBlocking(getBlockedDomains()); shieldActive = success; setInterval
start ==
  /\ srvPhase = "stopped"
  /\ srvPhase' = "running"
  /\ enableBlocking(blockedDomains)
  /\ shieldActive' = isDaemonRunning
  /\ allowances' = storeActiveAllowances(allowances, now)
  /\ srvLastAllowanceCount' = Len(storeActiveAllowances(allowances, now))
  /\ nextTick' = now + SweepPeriod
  /\ UNCHANGED <<now, agentUntouched, dynamicRules, blockedDomains, hardLockouts,
                 resp, srvExpiredAt>>

ServerStart == start /\ UNCHANGED sideVars

\* POST /api/block
RestBlock(domain) ==
  /\ srvPhase = "running"
  /\ IF domain = NoDomain
       THEN /\ resp' = response("POST /api/block", "400", -1, FALSE)
            /\ UNCHANGED <<blockedDomains, agentSurface>>
       ELSE LET blocked == addBlockedDomain(blockedDomains, domain)
            IN /\ blockedDomains' = blocked
               /\ IF shieldActive THEN enableBlocking(blocked) ELSE UNCHANGED agentSurface
               /\ resp' = response("POST /api/block", "200", -1,
                                   shieldActive /\ isDaemonRunning)
  /\ UNCHANGED <<now, sideVars, agentUntouched, dynamicRules, allowances, hardLockouts,
                 srvPhase, shieldActive, srvLastAllowanceCount, nextTick, srvExpiredAt>>

\* DELETE /api/block/:domain
RestUnblock(domain) ==
  /\ srvPhase = "running"
  /\ LET blocked == removeBlockedDomain(blockedDomains, domain)
     IN /\ blockedDomains' = blocked
        /\ IF shieldActive THEN enableBlocking(blocked) ELSE UNCHANGED agentSurface
        /\ resp' = response("DELETE /api/block", "200", -1, shieldActive /\ isDaemonRunning)
  /\ UNCHANGED <<now, sideVars, agentUntouched, dynamicRules, allowances, hardLockouts,
                 srvPhase, shieldActive, srvLastAllowanceCount, nextTick, srvExpiredAt>>

\* POST /api/grant
RestGrant(domain, minutes) ==
  /\ srvPhase = "running"
  /\ IF domain = NoDomain \/ minutes = 0
       THEN /\ resp' = [NoResponse EXCEPT !.op = "POST /api/grant", !.status = "400"]
            /\ UNCHANGED <<allowances, agentSurface, srvExpiredAt>>
       ELSE LET allows == grantAllowance(allowances, domain, minutes, now)
            IN /\ allowances' = allows
               /\ IF shieldActive THEN enableBlocking(blockedDomains)
                                  ELSE UNCHANGED agentSurface
               /\ resp' = response("POST /api/grant", "200", -1, shieldActive /\ isDaemonRunning)
               /\ grantResetsExpiry(domain)
  /\ UNCHANGED <<now, sideVars, agentUntouched, dynamicRules, blockedDomains, hardLockouts,
                 srvPhase, shieldActive, srvLastAllowanceCount, nextTick>>

\* DELETE /api/grant/:domain
RestRevoke(domain) ==
  /\ srvPhase = "running"
  /\ allowances' = revokeAllowance(allowances, domain)
  /\ IF shieldActive THEN enableBlocking(blockedDomains) ELSE UNCHANGED agentSurface
  /\ resp' = response("DELETE /api/grant", "200", -1, shieldActive /\ isDaemonRunning)
  /\ UNCHANGED <<now, sideVars, agentUntouched, dynamicRules, blockedDomains, hardLockouts,
                 srvPhase, shieldActive, srvLastAllowanceCount, nextTick, srvExpiredAt>>

\* POST /api/delay
RestDelay(domain) ==
  /\ srvPhase = "running"
  /\ IF domain = NoDomain
       THEN /\ resp' = response("POST /api/delay", "400", -1, FALSE)
            /\ UNCHANGED delayedDomains
       ELSE /\ delayedDomains' = addDelayedDomain(delayedDomains, domain)
            /\ resp' = response("POST /api/delay", "200", -1, FALSE)
  /\ UNCHANGED <<now, agentVars, storeVars, textVars, mcpVars, stepVars,
                 srvPhase, shieldActive, srvLastAllowanceCount, nextTick, srvExpiredAt>>

\* GET /api/allowances: getActiveAllowances() drops the expired entries
RestAllowances ==
  /\ srvPhase = "running"
  /\ allowances' = storeActiveAllowances(allowances, now)
  /\ UNCHANGED <<now, agentVars, blockedDomains, hardLockouts, serverVars, sideVars>>

\* POST /api/shield/enable
RestShieldEnable ==
  /\ srvPhase = "running"
  /\ enableBlocking(blockedDomains)
  /\ shieldActive' = (isDaemonRunning \/ shieldActive)
  /\ resp' = response("POST /api/shield/enable", IF isDaemonRunning THEN "200" ELSE "500",
                      -1, isDaemonRunning)
  /\ UNCHANGED <<now, sideVars, agentUntouched, dynamicRules, storeVars,
                 srvPhase, srvLastAllowanceCount, nextTick, srvExpiredAt>>

\* POST /api/shield/disable
RestShieldDisable ==
  /\ srvPhase = "running"
  /\ disableBlocking
  /\ shieldActive' = FALSE
  /\ resp' = response("POST /api/shield/disable", "200", -1, isDaemonRunning)
  /\ UNCHANGED <<now, sideVars, agentUntouched, dynamicRules, storeVars,
                 srvPhase, srvLastAllowanceCount, nextTick, srvExpiredAt>>

\* server.ts checkAllowanceExpiry, every 30 s
ServerTick ==
  /\ srvPhase = "running"
  /\ now = nextTick
  /\ LET current == Len(storeActiveAllowances(allowances, now))
     IN /\ allowances' = storeActiveAllowances(allowances, now)
        /\ IF current < srvLastAllowanceCount /\ shieldActive
             THEN enableBlocking(blockedDomains)
             ELSE UNCHANGED agentSurface
        /\ srvLastAllowanceCount' = current
  /\ nextTick' = now + SweepPeriod
  /\ UNCHANGED <<now, sideVars, agentUntouched, dynamicRules, blockedDomains, hardLockouts,
                 srvPhase, shieldActive, resp, srvExpiredAt>>

\* ------------------------------------------------- control server: MCP tools

\* a validMinutes without the upper limit
validMinutesUncapped(minutes) == minutes >= 1

\* the schema of focus_grant: minutes: z.number().min(1).max(30)
validMinutes(minutes) == minutes >= 1 /\ minutes <= MaxToolMinutes

\* focus_grant
McpGrant(domain, minutes) ==
  /\ srvPhase = "running"
  /\ IF ~validMinutes(minutes)
       THEN /\ resp' = response("focus_grant", "invalid", -1, FALSE)
            /\ UNCHANGED <<allowances, agentSurface, srvExpiredAt>>
       ELSE IF isHardLocked(hardLockouts, domain, now)
       THEN /\ resp' = response("focus_grant", "refused",
                                getHardLockoutUntil(hardLockouts, domain, now), FALSE)
            /\ UNCHANGED <<allowances, agentSurface, srvExpiredAt>>
       ELSE LET allows == grantAllowance(allowances, domain, minutes, now)
            IN /\ allowances' = allows
               /\ IF shieldActive
                    THEN enableBlocking(getEffectivelyBlockedDomains(blockedDomains, allows, now))
                    ELSE UNCHANGED agentSurface
               /\ resp' = response("focus_grant", "granted", -1, shieldActive /\ isDaemonRunning)
               /\ grantResetsExpiry(domain)
  /\ UNCHANGED <<now, sideVars, agentUntouched, dynamicRules, blockedDomains, hardLockouts,
                 srvPhase, shieldActive, srvLastAllowanceCount, nextTick>>

\* focus_block
focus_block(domain, ips) ==
  LET blocked == addBlockedDomain(blockedDomains, domain)
  IN /\ blockedDomains' = blocked
     /\ IF shieldActive
          THEN enableBlocking(blocked) /\ enforceBlockViaDaemon(domain, ips)
          ELSE UNCHANGED <<agentSurface, dynamicRules>>

McpBlock(domain, ips) ==
  /\ srvPhase = "running"
  /\ focus_block(domain, ips)
  /\ UNCHANGED <<now, sideVars, agentUntouched, allowances, hardLockouts, serverVars>>

\* focus_unblock
McpUnblock(domain) ==
  /\ srvPhase = "running"
  /\ IF isHardLocked(hardLockouts, domain, now)
       THEN /\ resp' = response("focus_unblock", "refused",
                                getHardLockoutUntil(hardLockouts, domain, now), FALSE)
            /\ UNCHANGED <<blockedDomains, agentSurface>>
       ELSE LET blocked == removeBlockedDomain(blockedDomains, domain)
            IN /\ blockedDomains' = blocked
               /\ IF shieldActive THEN enableBlocking(blocked) ELSE UNCHANGED agentSurface
               /\ resp' = response("focus_unblock", "unblocked", -1, shieldActive /\ isDaemonRunning)
  /\ UNCHANGED <<now, sideVars, agentUntouched, dynamicRules, allowances, hardLockouts,
                 srvPhase, shieldActive, srvLastAllowanceCount, nextTick, srvExpiredAt>>

\* ---------------------------------------------------- control server: time

\* stored allowances that reach their expiry when the clock shows t
storeDueAt(allows, t) == {a.domain : a \in {x \in Range(allows) : x.expiresAt = t}}

\* the history of a stored expiry is kept until its deadline
srvForgotten(d, t) == srvExpiredAt[d] # -1 /\ t > srvExpiredAt[d] + SweepPeriod

\* both timers fire when they are due: the clock does not pass a pending tick
clockAdvances(limit) ==
  /\ now < limit
  /\ now' = now + 1
  /\ AgentTimePasses
  /\ srvPhase = "running" => now < nextTick
  /\ UNCHANGED <<sideVars, storeVars, srvPhase, shieldActive, srvLastAllowanceCount, nextTick, resp>>

\* the clock, with the record of the stored allowances that end
ServerClock ==
  /\ clockAdvances(MaxTime)
  /\ srvExpiredAt' = [d \in StoredAllowanceDomains |->
                        IF d \in storeDueAt(allowances, now + 1) THEN now + 1
                        ELSE IF srvForgotten(d, now + 1) THEN -1
                        ELSE srvExpiredAt[d]]

\* the clock up to the end of the earlier lockout, without that record
VetoClock ==
  /\ clockAdvances(LockEnd)
  /\ UNCHANGED srvExpiredAt

\* --------------------------------------------------- specification: agent

vars == <<now, agentVars, storeVars, serverVars, sideVars>>

Init ==
  /\ now = 0
  \* the agent: started on a fresh machine, about to listen
  /\ aPhase = "restored"
  /\ state = DefaultState
  /\ stateFile = <<>>
  /\ lastAllowanceCount = 0
  /\ lastAllowanceDomains = {}
  /\ nextSweep = SweepPeriod
  /\ hostRegion = {}
  /\ pfAnchor = "absent"
  /\ dynamicRules = {}
  /\ preCrashEffective = {}
  /\ expiredAt = [d \in AllowanceDomains |-> -1]
  /\ sweepCascades = [d \in AllowanceDomains |-> 0]
  \* the store: DEFAULTS
  /\ blockedDomains = DefaultBlocked
  /\ allowances = <<>>
  /\ hardLockouts = <<>>
  \* the control server: not started
  /\ srvPhase = "stopped"
  /\ shieldActive = FALSE
  /\ srvLastAllowanceCount = 0
  /\ nextTick = 0
  /\ resp = NoResponse
  /\ srvExpiredAt = [d \in StoredAllowanceDomains |-> -1]
  \* the files of a fresh machine
  /\ hostsFile = PristineHosts
  /\ pfConf = PristinePfConf
  \* the rest of the store, and no token yet
  /\ delayedDomains = DefaultDelayed
  /\ tokenFile = <<>>
  /\ MCP_TOKEN = <<>>
  /\ sessions = {}
  /\ mcpRequest = [header |-> <<>>, query |-> <<>>]
  /\ revoking = [pc |-> "idle", domain |-> <<>>, done |-> <<>>]
  /\ beforeDisable = [shield |-> FALSE, region |-> {}, after |-> DefaultState]
  /\ delaySessions = <<>>
  /\ today = 0
  /\ pending = {}
  /\ delayLog = [asked |-> <<>>, seconds |-> 0, recorded |-> [d \in DelayCanonical |-> 0]]

AgentTick ==
  /\ now < MaxTime
  /\ now' = now + 1
  /\ AgentTimePasses
  /\ UNCHANGED <<storeVars, serverVars, sideVars>>

AgentOp ==
  \/ AgentCrash
  \/ AgentStart
  \/ AgentListen
  \/ \E domains \in BlocklistInputs : AgentBlocklist(domains)
  \/ \E d \in AgentDomains, m \in 1..MaxMinutes : AgentGrant(d, m)
  \/ \E d \in AgentDomains, ips \in ResolveOutcomes : AgentRevoke(d, ips)
  \/ \E d \in AgentDomains, ips \in ResolveOutcomes : AgentEnforceBlock(d, ips)
  \/ AgentEnable
  \/ AgentDisable
  \/ AgentClear
  \/ \E ips \in ResolveOutcomes : checkAllowanceExpiry(ips)

AgentNext ==
  \/ AgentTick
  \/ AgentOp

SpecAgent == Init /\ [][AgentNext]_vars


\* --------------------------------------------------- specification: store

StoreNext ==
  \/ StoreTick
  \/ \E d \in StoreDomains : StoreAddBlocked(d)
  \/ \E d \in StoreDomains : StoreRemoveBlocked(d)
  \/ \E d \in StoreDomains, m \in 1..MaxMinutes : StoreGrant(d, m)
  \/ \E d \in StoreDomains : StoreRevoke(d)
  \/ StoreGetActiveAllowances
  \/ \E d \in StoreDomains, until \in LockDates : StoreAddHardLockout(d, until)
  \/ \E d \in StoreDomains : StoreRemoveHardLockout(d)

SpecStore == Init /\ [][StoreNext]_vars

\* ------------------------------------------ specification: store set operations

SetsNext ==
  \/ \E d \in StoreDomains : StoreAddBlocked(d)
  \/ \E d \in StoreDomains : StoreRemoveBlocked(d)
  \/ \E d \in StoreDomains, m \in 1..MaxMinutes : StoreGrant(d, m)
  \/ \E d \in StoreDomains : StoreRevoke(d)
  \/ \E d \in StoreDomains : StoreAddDelayed(d)
  \/ \E d \in StoreDomains : StoreRemoveDelayed(d)

SpecSets == Init /\ [][SetsNext]_vars

\* ----------------------------- server: block and unblock, await by await

concFrame == <<now, agentUntouched, dynamicRules, allowances, hardLockouts, serverVarsButResp,
               textVars, delayedDomains, mcpVars, revoking, beforeDisable, delayVars>>

freeIds == (1..MaxRequests) \ {r.id : r \in pending}

\* the handler up to its first await: the store is changed, getBlockedDomains()
\* is evaluated, enableBlocking asks the agent for its status
handlerStarts(op, blocked) ==
  /\ srvPhase = "running" /\ shieldActive /\ isDaemonRunning
  /\ freeIds # {}
  /\ blockedDomains' = blocked
  /\ pending' = pending \cup
       {[id |-> CHOOSE i \in freeIds : \A j \in freeIds : i <= j,
         op |-> op, domains |-> blocked, pc |-> "status"]}
  /\ UNCHANGED <<concFrame, resp, agentSurface>>

ConcBlockStarts(domain) ==
  domain # NoDomain /\ handlerStarts("POST /api/block", addBlockedDomain(blockedDomains, domain))

ConcUnblockStarts(domain) ==
  handlerStarts("DELETE /api/block", removeBlockedDomain(blockedDomains, domain))

hasHandler(id) == \E r \in pending : r.id = id

handlerOf(id) == CHOOSE r \in pending : r.id = id

handlerMoves(r, from, to) ==
  /\ r \in pending
  /\ r.pc = from
  /\ pending' = (pending \ {r}) \cup {[r EXCEPT !.pc = to]}

\* the agent answers GET /status; syncBlocklistWithDaemon sends r.domains
concStatusOf(r) ==
  /\ isDaemonRunning
  /\ handlerMoves(r, "status", "blocklist")
  /\ UNCHANGED <<concFrame, resp, agentSurface, blockedDomains>>

\* the agent handles POST /blocklist with the list of this request
concBlocklistOf(r) ==
  /\ isDaemonRunning
  /\ handlerMoves(r, "blocklist", "enable")
  /\ LET st == [state EXCEPT !.blockedDomains = r.domains]
     IN /\ state' = st
        /\ stateFile' = saveState(st)
        /\ hostRegion' = updateHostsFile(st, now)
        /\ pfAnchor' = refreshedAnchor(st)
  /\ UNCHANGED <<concFrame, resp, blockedDomains>>

\* the agent handles POST /enable
concEnableOf(r) ==
  /\ isDaemonRunning
  /\ handlerMoves(r, "enable", "respond")
  /\ LET st == shieldSet(state, TRUE)
     IN /\ state' = st
        /\ stateFile' = saveState(st)
        /\ hostRegion' = updateHostsFile(st, now)
        /\ pfAnchor' = refreshedAnchor(st)
  /\ UNCHANGED <<concFrame, resp, blockedDomains>>

\* res.json(...)
concRespondOf(r) ==
  /\ r \in pending
  /\ r.pc = "respond"
  /\ pending' = pending \ {r}
  /\ resp' = response(r.op, "200", -1, TRUE)
  /\ UNCHANGED <<concFrame, agentSurface, blockedDomains>>

\* the steps of the handler with the given id
ConcStatus(id) ==
  /\ hasHandler(id)
  /\ concStatusOf(handlerOf(id))

ConcBlocklist(id) ==
  /\ hasHandler(id)
  /\ concBlocklistOf(handlerOf(id))

ConcEnable(id) ==
  /\ hasHandler(id)
  /\ concEnableOf(handlerOf(id))

ConcRespond(id) ==
  /\ hasHandler(id)
  /\ concRespondOf(handlerOf(id))

\* ------------------------------------------- server: the remote tool endpoint

\* a token is one piece of text; randomUUID() draws one
t1 == [k |-> "token", v |-> 1]
t2 == [k |-> "token", v |-> 2]
Tokens == {t1, t2}
\* process.env.CC_FOCUS_MCP_TOKEN: <<>> when not set
EnvTokens == {<<>>, <<t2>>}
SessionIds == {"s1"}
NoSession == "none"

\* String.prototype.trim() on the text of the token file
RECURSIVE trimStart(_)
trimStart(text) ==
  IF text # <<>> /\ Head(text) = Nl THEN trimStart(Tail(text)) ELSE text

trim(text) == trimStart(trimEnd(text))

\* writeFileSync(TOKEN_FILE, token) leaves the token as the whole text
loadOrCreateTokenAlways(file, uuid) == [token |-> <<uuid>>, file |-> <<uuid>>]

\* loadOrCreateToken(): the token it returns and the file it leaves
loadOrCreateToken(file, uuid) ==
  IF file # <<>>
    THEN [token |-> trim(file), file |-> file]
    ELSE [token |-> <<uuid>>, file |-> <<uuid>>]

\* const MCP_TOKEN = process.env.CC_FOCUS_MCP_TOKEN || loadOrCreateToken()
moduleLoad(env, uuid) ==
  /\ IF env # <<>>
       THEN MCP_TOKEN' = env /\ UNCHANGED tokenFile
       ELSE LET loaded == loadOrCreateToken(tokenFile, uuid)
            IN MCP_TOKEN' = loaded.token /\ tokenFile' = loaded.file
  /\ sessions' = {}

\* the server process starts: mcp.ts is evaluated, then start() runs
McpServerStart(env, uuid) ==
  /\ start
  /\ moduleLoad(env, uuid)
  /\ UNCHANGED <<textVars, delayedDomains, mcpRequest, stepVars>>

\* the server process ends: what it held in memory is gone
McpServerExit ==
  /\ srvPhase = "running"
  /\ srvPhase' = "stopped"
  /\ shieldActive' = FALSE
  /\ srvLastAllowanceCount' = 0
  /\ nextTick' = 0
  /\ MCP_TOKEN' = <<>>
  /\ sessions' = {}
  /\ UNCHANGED <<now, agentVars, storeVars, resp, srvExpiredAt, textVars,
                 delayedDomains, tokenFile, mcpRequest, stepVars>>

\* the user edits or removes the token file
TokenFileTexts == {<<>>, <<t1>>, <<t1, Nl>>, <<Nl>>}

TokenFileEdited(text) ==
  /\ tokenFile' = text
  /\ UNCHANGED <<now, agentVars, storeVars, serverVars, textVars, delayedDomains,
                 MCP_TOKEN, sessions, mcpRequest, stepVars>>

\* the Authorization header as text: <<>> when the request has none
Bearer == [k |-> "Bearer "]
Basic == [k |-> "Basic "]
Headers ==
  {<<>>, <<Bearer>>, <<Basic, t1>>, <<t1>>} \cup {<<Bearer, t>> : t \in Tokens}
\* req.query.token: <<>> when the request has none
Queries == {<<>>} \cup {<<t>> : t \in Tokens}

\* String.prototype.replace('Bearer ', ''): the first occurrence only
replaceBearer(header) ==
  IF \E i \in 1..Len(header) : header[i] = Bearer
    THEN LET i == CHOOSE j \in 1..Len(header) :
                    header[j] = Bearer /\ \A k \in 1..(j - 1) : header[k] # Bearer
         IN SubSeq(header, 1, i - 1) \o SubSeq(header, i + 1, Len(header))
    ELSE header

authCheckAny(header, query) ==
  LET headerToken == replaceBearer(header)
      token == IF headerToken # <<>> THEN headerToken ELSE query
  IN token # <<>>

authCheck(header, query) ==
  LET headerToken == replaceBearer(header)
      token == IF headerToken # <<>> THEN headerToken ELSE query
  IN ~(token = <<>> \/ token # MCP_TOKEN)

mcpResponse(op, status) == response(op, status, -1, FALSE)

mcpFrame == <<now, agentUntouched, allowances, hardLockouts, textVars, delayedDomains,
              tokenFile, MCP_TOKEN, serverVarsButResp, stepVars>>

noTool == UNCHANGED <<blockedDomains, agentSurface, dynamicRules>>

\* what the body of a POST asks for
Bodies == {"initialize", "tools/call"}

\* POST /mcp. The transport is not part of the sources: whether it has a
\* session id when the handler looks, and whether it runs a tool call that
\* arrives without a session, are open: newId is transport.sessionId (NoSession
\* when it has none), runs tells whether the call is executed.
McpPost(header, query, sessionId, body, domain, ips, newId, runs) ==
  /\ srvPhase = "running"
  /\ mcpRequest' = [header |-> header, query |-> query]
  /\ IF ~authCheck(header, query)
       THEN /\ resp' = mcpResponse("POST /mcp", "401")
            /\ noTool
            /\ UNCHANGED sessions
       ELSE /\ resp' = mcpResponse("POST /mcp", "200")
            /\ IF sessionId # NoSession /\ sessionId \in sessions
                 THEN /\ UNCHANGED sessions
                      /\ IF body = "tools/call"
                           THEN focus_block(domain, ips)
                           ELSE noTool
                 ELSE /\ sessions' = IF newId # NoSession THEN sessions \cup {newId} ELSE sessions
                      /\ IF body = "tools/call" /\ runs
                           THEN focus_block(domain, ips)
                           ELSE noTool
  /\ UNCHANGED mcpFrame

\* GET /mcp
McpGet(header, query, sessionId) ==
  /\ srvPhase = "running"
  /\ mcpRequest' = [header |-> header, query |-> query]
  /\ resp' = mcpResponse("GET /mcp",
               IF ~authCheck(header, query) THEN "401"
               ELSE IF sessionId = NoSession \/ sessionId \notin sessions THEN "400"
               ELSE "200")
  /\ noTool
  /\ UNCHANGED sessions
  /\ UNCHANGED mcpFrame

\* DELETE /mcp
McpDelete(header, query, sessionId) ==
  /\ srvPhase = "running"
  /\ mcpRequest' = [header |-> header, query |-> query]
  /\ IF ~authCheck(header, query)
       THEN /\ resp' = mcpResponse("DELETE /mcp", "401")
            /\ UNCHANGED sessions
       ELSE IF sessionId = NoSession \/ sessionId \notin sessions
         THEN /\ resp' = mcpResponse("DELETE /mcp", "400")
              /\ UNCHANGED sessions
         ELSE /\ resp' = mcpResponse("DELETE /mcp", "200")
              /\ sessions' = sessions \ {sessionId}
  /\ noTool
  /\ UNCHANGED mcpFrame

\* ------------------------------------------ specification: progressive delay

DelayNext ==
  \/ \E d \in DelayDomains : StoreGetDelaySeconds(d)
  \/ \E d \in DelayDomains : StoreRecordDelayAccess(d)
  \/ DateChanges

SpecDelay == Init /\ [][DelayNext]_vars

\* ------------------------------------ specification: concurrent requests

ConcDomains == {tw, yt}

ConcNext ==
  \/ AgentListen
  \/ ServerStart
  \/ \E d \in ConcDomains : ConcBlockStarts(d)
  \/ \E d \in ConcDomains : ConcUnblockStarts(d)
  \/ \E id \in 1..MaxRequests : ConcStatus(id)
  \/ \E id \in 1..MaxRequests : ConcBlocklist(id)
  \/ \E id \in 1..MaxRequests : ConcEnable(id)
  \/ \E id \in 1..MaxRequests : ConcRespond(id)

SpecConc == Init /\ [][ConcNext]_vars

\* --------------------------------------------- specification: request bodies

\* "localhost" has no '.', "https://twitter.com" carries a scheme
noDot == <<"localhost">>
withScheme == <<"https://twitter", "com">>
MalformedDomains == {noDot, withScheme}

\* what a client sends as `domain` and as `minutes`
BodyDomains == {NoDomain, tw} \cup MalformedDomains
BodyMinutes == {0, 1, MaxToolMinutes + 1}

BodiesNext ==
  \/ AgentListen
  \/ ServerStart
  \/ \E d \in BodyDomains : RestBlock(d)
  \/ \E d \in BodyDomains, m \in BodyMinutes : RestGrant(d, m)
  \/ \E d \in BodyDomains : RestDelay(d)

SpecBodies == Init /\ [][BodiesNext]_vars

\* ------------------------------------------- specification: remote tools

McpDomains == {tw}
RequestSessions == {NoSession} \cup SessionIds

McpNext ==
  \/ AgentListen
  \/ \E env \in EnvTokens, uuid \in Tokens : McpServerStart(env, uuid)
  \/ McpServerExit
  \/ \E text \in TokenFileTexts : TokenFileEdited(text)
  \/ \E h \in Headers, q \in Queries, sid \in RequestSessions, body \in Bodies,
        d \in McpDomains, newId \in RequestSessions, runs \in BOOLEAN :
       McpPost(h, q, sid, body, d, IPs, newId, runs)
  \/ \E h \in Headers, q \in Queries, sid \in RequestSessions : McpGet(h, q, sid)
  \/ \E h \in Headers, q \in Queries, sid \in RequestSessions : McpDelete(h, q, sid)

SpecMcp == Init /\ [][McpNext]_vars

\* ---------------------------------------- specification: the revoke cascade

CascadeDomains == {tw, upperTw}
CascadeBlocklists == {<<>>, <<tw>>}

\* the other handlers run while no /revoke is under way
ListenIdle == idle /\ AgentListen
BlocklistIdle(domains) == idle /\ AgentBlocklist(domains)
GrantIdle(d, m) == idle /\ AgentGrant(d, m)
EnableIdle == idle /\ AgentEnable
DisableIdle == idle /\ AgentDisable

CascadeNext ==
  \/ FilesClock
  \/ ListenIdle
  \/ \E domains \in CascadeBlocklists : BlocklistIdle(domains)
  \/ \E d \in CascadeDomains, m \in 1..MaxMinutes : GrantIdle(d, m)
  \/ EnableIdle
  \/ DisableIdle
  \/ \E d \in CascadeDomains : RevokeFilter(d)
  \/ RevokeSave
  \/ RevokeRefresh
  \/ \E ips \in ResolveOutcomes : RevokeBlockIPs(ips)
  \/ RevokeKill
  \/ RevokeTabs
  \/ RevokeFlush
  \/ RevokeRespond

SpecCascade == Init /\ [][CascadeNext]_vars

\* ------------------------------------------ specification: dynamic rules

\* "twitter.com" is a textual prefix of "twitter.com.au"
twAu == <<"twitter", "com", "au">>
RuleDomains == {tw, twAu}

RulesNext ==
  \/ FilesClock
  \/ AgentListen
  \/ \E d \in RuleDomains, m \in 1..MaxMinutes : AgentGrant(d, m)
  \/ \E d \in RuleDomains, ips \in ResolveOutcomes : AgentRevoke(d, ips)
  \/ \E d \in RuleDomains, ips \in ResolveOutcomes : AgentEnforceBlock(d, ips)

SpecRules == Init /\ [][RulesNext]_vars

\* ------------------------------------------ specification: shield toggle

ToggleDomains == {tw}
ToggleBlocklists == {<<>>, <<tw>>}

ToggleNext ==
  \/ AgentTick
  \/ AgentListen
  \/ checkAllowanceExpiry({})
  \/ \E domains \in ToggleBlocklists : AgentBlocklist(domains)
  \/ \E d \in ToggleDomains, m \in 1..MaxMinutes : AgentGrant(d, m)
  \/ AgentEnable
  \/ AgentDisableNoted

SpecToggle == Init /\ [][ToggleNext]_vars

\* -------------------------------------------------- specification: server

\* domains named in requests to the control server
ServerDomains == {tw, mobileTw}

ServerNext ==
  \/ ServerClock
  \/ AgentListen
  \/ \E ips \in ResolveOutcomes : checkAllowanceExpiry(ips)
  \/ ServerStart
  \/ ServerTick
  \/ \E d \in ServerDomains \cup {NoDomain} : RestBlock(d)
  \/ \E d \in ServerDomains \cup {NoDomain}, m \in 1..MaxMinutes : RestGrant(d, m)
  \/ \E d \in ServerDomains : RestRevoke(d)
  \/ RestAllowances
  \/ RestShieldEnable
  \/ RestShieldDisable
  \/ \E d \in ServerDomains, m \in 1..MaxMinutes : McpGrant(d, m)
  \/ \E d \in ServerDomains, ips \in ResolveOutcomes : McpBlock(d, ips)

SpecServer == Init /\ [][ServerNext]_vars

\* --------------------------------------------- specification: hard lockouts

\* the server's grant and unblock surfaces under hard lockouts
VetoNext ==
  \/ VetoClock
  \/ AgentListen
  \/ \E ips \in ResolveOutcomes : checkAllowanceExpiry(ips)
  \/ ServerStart
  \/ ServerTick
  \/ \E d \in ServerDomains : RestUnblock(d)
  \/ \E d \in ServerDomains \cup {NoDomain}, m \in 1..MaxMinutes : RestGrant(d, m)
  \/ \E d \in ServerDomains, m \in 1..MaxMinutes : McpGrant(d, m)
  \/ \E d \in ServerDomains : McpUnblock(d)
  \/ \E until \in LockDates : StoreAddHardLockout(tw, until)
  \/ StoreRemoveHardLockout(tw)

SpecVeto == Init /\ [][VetoNext]_vars

\* ------------------------------------------------ specification: tool surface

\* `minutes` arguments of focus_grant, inside and outside the schema's range
ToolMinuteInputs == {0, 1, MaxToolMinutes, MaxToolMinutes + 1}

\* the focus_grant tool alone, for the first LockEnd time units
ToolNext ==
  \/ VetoClock
  \/ AgentListen
  \/ \E ips \in ResolveOutcomes : checkAllowanceExpiry(ips)
  \/ ServerStart
  \/ ServerTick
  \/ \E d \in ServerDomains, m \in ToolMinuteInputs : McpGrant(d, m)

SpecTool == Init /\ [][ToolNext]_vars

\* ------------------------------------------- specification: allowance records

\* spellings a caller of the store names in this specification
MirrorStoreDomains == {tw, wwwTw}

\* grants and revokes, in the store and at the agent; the resolver finds no address,
\* so the dynamic anchor stays as it is
MirrorNext ==
  \/ AgentTick
  \/ AgentListen
  \/ checkAllowanceExpiry({})
  \/ \E d \in MirrorDomains, m \in 1..MaxMinutes : AgentGrant(d, m)
  \/ \E d \in MirrorDomains : AgentRevoke(d, {})
  \/ \E d \in MirrorStoreDomains, m \in 1..MaxMinutes : StoreGrant(d, m)
  \/ \E d \in MirrorStoreDomains : StoreRevoke(d)

SpecMirror == Init /\ [][MirrorNext]_vars

\* ------------------------------------------------ specification: agent outage

\* the REST surface while the agent may crash and restart
OutageNext ==
  \/ VetoClock
  \/ AgentCrash
  \/ AgentStart
  \/ AgentListen
  \/ checkAllowanceExpiry({})
  \/ ServerStart
  \/ ServerTick
  \/ \E d \in ServerDomains \cup {NoDomain} : RestBlock(d)
  \/ \E d \in ServerDomains : RestUnblock(d)
  \/ \E d \in ServerDomains \cup {NoDomain}, m \in 1..MaxMinutes : RestGrant(d, m)
  \/ \E d \in ServerDomains : RestRevoke(d)
  \/ RestShieldEnable
  \/ RestShieldDisable

SpecOutage == Init /\ [][OutageNext]_vars

\* ------------------------------------------ specification: server startup

StartupNext ==
  \/ AgentListen
  \/ AgentEnable
  \/ AgentDisable
  \/ ServerStart
  \/ McpServerExit
  \/ \E d \in ServerDomains : RestBlock(d)
  \/ \E d \in ServerDomains : RestUnblock(d)
  \/ RestShieldEnable
  \/ RestShieldDisable

SpecStartup == Init /\ [][StartupNext]_vars

\* --------------------------------------------------- specification: the disk

\* the agent over a disk whose writes can fail or be cut short by a crash
DiskNext ==
  \/ AgentTick
  \/ AgentCrash
  \/ AgentStart
  \/ AgentListen
  \/ checkAllowanceExpiry({})
  \/ \E domains \in BlocklistInputs : AgentBlocklist(domains)
  \/ \E d \in AgentDomains, m \in 1..MaxMinutes : AgentGrant(d, m)
  \/ \E domains \in BlocklistInputs : AgentBlocklistWriteFails(domains)
  \/ \E d \in AgentDomains, m \in 1..MaxMinutes : AgentGrantWriteFails(d, m)
  \/ \E domains \in BlocklistInputs : AgentCrashInSave(domains)

SpecDisk == Init /\ [][DiskNext]_vars

\* ------------------------------------------------- specification: faults

\* the agent while the host file or the best-effort surfaces fail
FaultNext ==
  \/ AgentTick
  \/ AgentListen
  \/ \E domains \in BlocklistInputs : AgentBlocklist(domains)
  \/ \E d \in AgentDomains, m \in 1..MaxMinutes : AgentGrant(d, m)
  \/ \E failed \in FailureInputs : checkAllowanceExpiry(resolveDomainIPs(IPs, failed))
  \/ \E d \in AgentDomains, failed \in FailureInputs : AgentRevokeSurfacesFail(d, IPs, failed)
  \/ \E d \in AgentDomains, failed \in FailureInputs :
       AgentEnforceBlockSurfacesFail(d, IPs, failed)
  \/ \E domains \in BlocklistInputs : AgentBlocklistHostsFails(domains)
  \/ \E on \in BOOLEAN : AgentSetShieldHostsFails(on)

SpecFault == Init /\ [][FaultNext]_vars

\* ---------------------------------------------- specification: host file

HostsNext ==
  \/ FilesClock
  \/ \E st \in HostsStates : HostsUpdate(st)
  \/ \E piece \in {Txt, Nl}, at \in 1..(MaxOutside + 40) : HostsEdited(piece, at)

SpecHosts == Init /\ [][HostsNext]_vars

\* ----------------------------------------------- specification: blocking twice

\* POST /api/block on the control server, POST /hosts on the agent
BlockNext ==
  \/ FilesClock
  \/ AgentListen
  \/ ServerStart
  \/ \E d \in ServerDomains : RestBlock(d)
  \/ \E st \in HostsStates : HostsUpdate(st)

SpecBlock == Init /\ [][BlockNext]_vars

\* --------------------------------------- specification: filter configuration

PfNext ==
  \/ PfUpdate
  \/ PfScript
  \/ \E piece \in {Txt, Nl}, atEnd \in BOOLEAN : PfEdited(piece, atEnd)

SpecPf == Init /\ [][PfNext]_vars

\* ------------------------------------------------------- claims: the agent

\* the effective block set as the specification defines it: the mirrored blocklist
\* minus every entry matched (equal to, or a subdomain of) by an active allowance
matchedByAllowance(d, st, t) ==
  \E a \in Range(getActiveAllowances(st, t)) :
    isSelfOrSubdomain(normalizeDomain(d), normalizeDomain(a.domain))

effectiveBlockSet(st, t) == {d \in Range(st.blockedDomains) : ~matchedByAllowance(d, st, t)}

persistedShieldAndBlocklist ==
  /\ stateFile # <<>>
  /\ stateFile[1].shieldActive
  /\ Len(stateFile[1].blockedDomains) > 0

C2_RegionEqualsEffective ==
  (aPhase = "serving" /\ state.shieldActive) =>
    hostRegion = collectAllDomainsWithVariants(effectiveBlockSet(state, now))

\* C3 (as claimed): whenever the agent runs with shield = false, the host region is
\* absent and neither the static nor the dynamic anchor holds a block rule.
C3_SurfacesEmptyWhenOff ==
  (aPhase = "serving" /\ ~state.shieldActive) =>
    /\ hostRegion = {}
    /\ pfAnchor # "static"
    /\ dynamicRules = {}

\* C5 (as claimed): once an allowance of domain d has ended by its timer at time t (and
\* d was not granted again since), the sweep runs the cascade for d at most once, and
\* it has run it exactly once when the sweep due at t + SweepPeriod is done.
C5_CascadeOncePerExpiry ==
  \A d \in AllowanceDomains :
    /\ sweepCascades[d] <= 1
    /\ ( /\ expiredAt[d] # -1
         /\ now >= expiredAt[d] + SweepPeriod
         /\ aPhase = "serving"
         /\ nextSweep > now )
       => sweepCascades[d] = 1

\* ------------------------------------------------------- claims: the store

\* queries put to is_blocked
QueryDomains == {tw, wwwTw, upperTw, mobileTw, <<"www", "mobile", "twitter", "com">>, yt}

\* the latest `until` among the active lockouts covering d (0: none)
lockHorizon(lockouts, d, t) ==
  LET untils == {l.until : l \in Range(coveringLockouts(lockouts, d, t))}
  IN IF untils = {} THEN 0 ELSE CHOOSE u \in untils : \A v \in untils : v <= u

\* C8 (as claimed): no step lifts or shortens a hard lockout that is still in effect:
\* a domain hard-locked until some date stays hard-locked until at least that date.
C8_LockoutNeverLifted ==
  [][\A d \in StoreDomains :
       lockHorizon(hardLockouts, d, now) > now' =>
         lockHorizon(hardLockouts', d, now') >= lockHorizon(hardLockouts, d, now)]_vars

\* C9 (as claimed): every blocklisted domain covered by an active hard lockout is
\* effectively blocked, whatever allowances exist.
C9_LockoutDominatesAllowance ==
  \A d \in Range(blockedDomains) :
    isHardLocked(hardLockouts, d, now) =>
      /\ isDomainBlocked(d, blockedDomains, allowances, now)
      /\ d \in Range(getEffectivelyBlockedDomains(blockedDomains, allowances, now))

\* an active allowance covers the domain
covered(d, allows, t) == \E a \in Range(allows) : matchesDomain(d, a.domain) /\ a.expiresAt > t

\* C10 (as claimed): for every blocklist entry p and every query q equal to p or ending
\* in "." + p, if p has no active allowance then is_blocked(q).
C10_SubdomainCoverageAsClaimed ==
  \A p \in Range(blockedDomains), q \in QueryDomains :
    (isSelfOrSubdomain(q, p) /\ ~covered(p, allowances, now)) =>
      isDomainBlocked(q, blockedDomains, allowances, now)

\* C10 (amended): for every blocklist entry p and every query q equal to p or ending in
\* "." + p, if no active allowance covers q then is_blocked(q).
C10_SubdomainCoverage ==
  \A p \in Range(blockedDomains), q \in QueryDomains :
    (isSelfOrSubdomain(q, p) /\ ~covered(q, allowances, now)) =>
      isDomainBlocked(q, blockedDomains, allowances, now)

C10_Witness ==
  /\ mobileTw \notin Range(blockedDomains)
  /\ tw \in Range(blockedDomains)
  /\ \E a \in Range(allowances) : a.expiresAt <= now /\ a.domain = tw
  /\ ~covered(mobileTw, allowances, now)
  /\ isDomainBlocked(<<"www", "mobile", "twitter", "com">>, blockedDomains, allowances, now)

\* ---------------------------------------------- claims: the control server

\* the server and the agent both run with the shield on
shieldsUp == srvPhase = "running" /\ shieldActive /\ aPhase = "serving" /\ state.shieldActive

\* C4 (as claimed): when the allowance of a blocklisted domain d has ended by its timer
\* at time t (and d was not granted again since) and a server tick has run at or after
\* t + SweepPeriod with the shield on, the agent's host region contains d again, unless
\* another active allowance covers d.
C4_ReblockWithinOnePeriod ==
  \A d \in StoredAllowanceDomains :
    ( /\ srvExpiredAt[d] # -1
      /\ now >= srvExpiredAt[d] + SweepPeriod
      /\ nextTick > now
      /\ shieldsUp
      /\ d \in Range(blockedDomains)
      /\ ~covered(d, allowances, now) )
    => d \in hostRegion

\* the `until` dates of the lockouts that cover domain (equal to it, or a parent of it)
\* and are still ahead: what a request for domain faces when it arrives
lockoutsInForce(domain) ==
  {l.until : l \in {x \in Range(hardLockouts) :
     /\ isSelfOrSubdomain(normalizeDomain(domain), normalizeDomain(x.domain))
     /\ x.until > now}}

\* C6 (as claimed): every POST /api/grant and every DELETE /api/block/:domain for a domain
\* covered by a hard lockout still ahead is answered 403 and leaves the allowance list
\* and the blocklist unchanged.
C6_RestVeto ==
  [][\A d \in ServerDomains :
       ( /\ lockoutsInForce(d) # {}
         /\ (RestUnblock(d) \/ \E m \in 1..MaxMinutes : RestGrant(d, m)) )
       => (resp'.status = "403" /\ UNCHANGED <<allowances, blockedDomains>>)]_vars

\* C7: every focus_grant and every focus_unblock for a domain covered by a hard lockout
\* still ahead returns a refusal that carries the until date of a lockout in force on
\* the domain, leaves the allowance list and the blocklist unchanged and sends nothing
\* to the agent.
C7_ToolVeto ==
  [][\A d \in ServerDomains :
       ( /\ lockoutsInForce(d) # {}
         /\ (McpUnblock(d) \/ \E m \in 1..MaxMinutes : McpGrant(d, m)) )
       => /\ resp'.status = "refused"
          /\ resp'.until \in lockoutsInForce(d)
          /\ ~resp'.ipc
          /\ UNCHANGED <<allowances, blockedDomains, agentVars>>]_vars

\* a focus_grant was refused with the date of the lockout on the parent domain, while
\* the domain was blocklisted and the shield was on
C7_Witness ==
  /\ resp.op = "focus_grant"
  /\ resp.status = "refused"
  /\ resp.until \in lockoutsInForce(mobileTw)
  /\ shieldsUp
  /\ tw \in Range(blockedDomains)

\* ------------------------------------------------ claims: allowances (store)

\* q is the blocklist entry p or a subdomain of it, for some p
inBlocklist(q, blocked) == \E p \in Range(blocked) : matchesDomain(q, p)

\* C11: for every stored allowance a (granted at a.expiresAt - a.grantedMinutes
\* minutes, not revoked or replaced since) and every query q matching a.domain: the
\* grant lies in the past; while now < a.expiresAt, is_blocked(q) is false; from
\* a.expiresAt on, is_blocked(q) is true again when q matches a blocklist entry and no
\* other active allowance covers q.
C11_AllowanceDominance ==
  \A a \in Range(allowances), q \in QueryDomains :
    matchesDomain(q, a.domain) =>
      /\ a.expiresAt - a.grantedMinutes * MinuteUnits <= now
      /\ now < a.expiresAt => ~isDomainBlocked(q, blockedDomains, allowances, now)
      /\ ( /\ now >= a.expiresAt
           /\ inBlocklist(q, blockedDomains)
           /\ ~covered(q, allowances, now) )
         => isDomainBlocked(q, blockedDomains, allowances, now)

\* the allowance on twitter.com is stored and the clock shows its expiry instant
C11_Witness ==
  /\ tw \in Range(blockedDomains)
  /\ \E a \in Range(allowances) : a.domain = tw /\ a.expiresAt = now
  /\ \A a \in Range(allowances) : a.expiresAt <= now
  /\ isDomainBlocked(mobileTw, blockedDomains, allowances, now)

\* ------------------------------------------------ claims: allowances (agent)

\* C12 (as claimed): when the agent's grant op for d returns with shield = true, the
\* host region holds no name equal to d or a subdomain of d, no dynamic rule tagged
\* with d remains, and every other effective domain is still in the host region.
C12_GrantClearsDomain ==
  [][\A d \in AgentDomains, m \in 1..MaxMinutes :
       (AgentGrant(d, m) /\ state'.shieldActive) =>
         /\ \A n \in hostRegion' : ~isSelfOrSubdomain(n, toLowerCase(d))
         /\ \A r \in dynamicRules' : r.domain # toLowerCase(d)
         /\ \A e \in effectiveBlockSet(state', now') : e \in hostRegion']_vars

\* ------------------------------------------- claims: server to agent messages

\* C13 (as claimed): every blocklist message of the control server that rewrites the
\* agent's mirror carries the effectively blocked set: the stored blocklist minus every
\* entry covered by an active allowance.
C13_SendsEffectiveSet ==
  [][state'.blockedDomains # state.blockedDomains =>
       state'.blockedDomains = getEffectivelyBlockedDomains(blockedDomains', allowances', now')]_vars

\* ------------------------------------------------- claims: the tool surface

\* C14: a focus_grant whose minutes is below 1 or above 30 is refused and leaves the
\* allowance list and the agent unchanged, and after every step every allowance made
\* through the tools has grantedMinutes in 1..30.
C14_MinutesCap ==
  [][/\ \A d \in ServerDomains, m \in ToolMinuteInputs :
          (McpGrant(d, m) /\ (m < 1 \/ m > 30)) =>
            /\ resp'.status = "invalid"
            /\ UNCHANGED <<allowances, agentVars>>
     /\ \A a \in Range(allowances') : a.grantedMinutes >= 1 /\ a.grantedMinutes <= 30]_vars

\* a call with 31 minutes was refused while an allowance of 30 minutes is stored
C14_Witness ==
  /\ resp.op = "focus_grant"
  /\ resp.status = "invalid"
  /\ \E a \in Range(allowances) : a.grantedMinutes = 30
  /\ shieldsUp

\* --------------------------------------------- claims: allowance records

\* no two records of the list have the same canonical domain
oneRecordPerDomain(allows) ==
  \A i, j \in DOMAIN allows :
    i # j => normalizeDomain(allows[i].domain) # normalizeDomain(allows[j].domain)

\* C15 (as claimed): after any sequence of grants and revokes, no two allowance records
\* of the policy store, and no two of the agent's mirror, have the same canonical domain.
C15_OneAllowancePerDomain ==
  /\ oneRecordPerDomain(allowances)
  /\ oneRecordPerDomain(state.allowances)

\* ---------------------------------------------------- claims: expiry of allowances

\* every reader reports a stored record active exactly while t < expiresAt
expiryExact(blocked, allows, st, t) ==
  /\ \A a \in Range(allows) :
       /\ (a \in Range(storeActiveAllowances(allows, t))) <=> (t < a.expiresAt)
       /\ t < a.expiresAt =>
            /\ getAllowanceRemaining(allows, a.domain, t) > 0
            /\ ~isDomainBlocked(a.domain, blocked, allows, t)
  /\ \A q \in QueryDomains :
       (\A a \in Range(allows) : matchesDomain(q, a.domain) => t >= a.expiresAt) =>
         /\ getAllowanceRemaining(allows, q, t) = 0
         /\ isDomainBlocked(q, blocked, allows, t) <=> inBlocklist(q, blocked)
  /\ \A a \in Range(st.allowances) :
       (a \in Range(getActiveAllowances(st, t))) <=> (t < a.expiresAt)

\* C16: after every step each reader (is_blocked, active_allowances, remaining_minutes,
\* the agent's getActiveAllowances) reports a record active exactly while
\* now < expiresAt, and a record that was dead before the step and is still stored is
\* dead after it.
C16_ExpiryMonotonic ==
  [][/\ expiryExact(blockedDomains', allowances', state', now')
     /\ \A a \in Range(allowances) \cap Range(allowances') :
          now >= a.expiresAt => a \notin Range(storeActiveAllowances(allowances', now'))
     /\ \A a \in Range(state.allowances) \cap Range(state'.allowances) :
          now >= a.expiresAt => a \notin Range(getActiveAllowances(state', now'))]_vars

\* a stored allowance and a mirrored allowance are at or past their expiry instant
C16_Witness ==
  /\ \E a \in Range(allowances) : a.expiresAt = now
  /\ \E b \in Range(state.allowances) : b.expiresAt = now
  /\ tw \in Range(blockedDomains)

\* --------------------------------------------- claims: server and agent outage

\* the step is a request to one of the four policy endpoints
policyRequest ==
  \E d \in ServerDomains :
    \/ RestBlock(d)
    \/ RestUnblock(d)
    \/ RestRevoke(d)
    \/ \E m \in 1..MaxMinutes : RestGrant(d, m)

\* after the step the agent has the list and its surfaces are written for it
agentApplied(domains) ==
  /\ isDaemonRunning
  /\ state'.blockedDomains = domains
  /\ state'.shieldActive
  /\ hostRegion' = updateHostsFile(state', now')
  /\ pfAnchor' = "static"

\* C17 (as claimed): when a mutating endpoint answers 200 (block, unblock, grant, revoke
\* with the shield on; shield enable; shield disable), the agent was reachable and has
\* rewritten the host region and the anchor for the list the server computed.
C17_OkMeansApplied ==
  [][/\ (policyRequest /\ shieldActive /\ resp'.status = "200") => agentApplied(blockedDomains')
     /\ (RestShieldEnable /\ resp'.status = "200") => agentApplied(blockedDomains)
     /\ (RestShieldDisable /\ resp'.status = "200") =>
          (isDaemonRunning /\ hostRegion' = {} /\ pfAnchor' = "disabled")]_vars

\* C18 (as claimed): when the call to the agent fails during a mutating request (the
\* agent is unreachable), the answer is not 200 and blocklist and allowances are as
\* before the request.
C18_FailureLeavesPolicy ==
  [][( /\ ~isDaemonRunning
       /\ \/ policyRequest /\ shieldActive
          \/ RestShieldEnable
          \/ RestShieldDisable )
     => (resp'.status # "200" /\ UNCHANGED <<blockedDomains, allowances>>)]_vars

\* ------------------------------------------------------- claims: persistence

\* C19 (as claimed): an agent op whose write of the state file failed does not
\* answer success.
C19_FailedWriteIsReported ==
  [][( \/ \E domains \in BlocklistInputs : AgentBlocklistWriteFails(domains)
       \/ \E d \in AgentDomains, m \in 1..MaxMinutes : AgentGrantWriteFails(d, m) )
     => resp'.status # "success"]_vars

\* C20 (as claimed): whatever the agent crashes in, the state file is absent or a
\* complete document, the previous one or the new one.
C20_NeverPartial == stateFile = <<>> \/ isDocument(stateFile)

\* ---------------------------------------------------- claims: failing surfaces

hostsFailureStep ==
  \/ \E domains \in BlocklistInputs : AgentBlocklistHostsFails(domains)
  \/ \E on \in BOOLEAN : AgentSetShieldHostsFails(on)

\* C21 (as claimed): an agent op whose host file rewrite fails answers with an
\* error and leaves the persisted mirror state as it was before the request.
C21_HostsFailureKeepsMirror ==
  [][hostsFailureStep => (resp'.status = "500" /\ stateFile' = stateFile)]_vars

\* C22: a failure of name resolution, connection kill, tab close or cache flush
\* never fails revoke or enforce-block: the agent answers success, the allowance
\* is gone from the state and the state file, and the host region is the one of
\* the new state; the sweep still drops the expired allowances and rewrites the
\* region for the domains it saw expire.
C22_BestEffortSwallowed ==
  [][/\ (resp'.op = "/revoke" /\ now' = now /\ nextSweep' = nextSweep
         /\ state'.blockedDomains = state.blockedDomains /\ hostRegion' = updateHostsFile(state', now)) =>
          \A d \in AgentDomains, failed \in FailureInputs :
            AgentRevokeSurfacesFail(d, IPs, failed) =>
              /\ resp'.status = "success"
              /\ \A a \in Range(state'.allowances) : toLowerCase(a.domain) # toLowerCase(d)
              /\ stateFile' = saveState(state')
              /\ hostRegion' = updateHostsFile(state', now')
     /\ (resp'.op = "/enforce-block" /\ now' = now /\ state' = state) =>
          \A d \in AgentDomains, failed \in FailureInputs :
            AgentEnforceBlockSurfacesFail(d, IPs, failed) => resp'.status = "success"
     /\ nextSweep' # nextSweep =>
          \A failed \in FailureInputs :
            checkAllowanceExpiry(resolveDomainIPs(IPs, failed)) =>
              /\ aPhase' = "serving"
              /\ \A a \in Range(state'.allowances) : a.expiresAt > now'
              /\ expiredDomains(state, lastAllowanceDomains, now) # {} =>
                   hostRegion' = updateHostsFile(state', now')]_vars

\* a revoke under failing surfaces was answered and twitter.com is blocked again
C22_Witness ==
  /\ resp.op = "/revoke"
  /\ resp.status = "success"
  /\ state.allowances = <<>>
  /\ tw \in hostRegion

\* ---------------------------------------------------- claims: the files as text

countOf(content, piece) == Len(SelectSeq(content, LAMBDA x : x = piece))

\* the entry lines between the sentinels
regionEntries(content) ==
  LET startIdx == indexOf(content, MARKER_START)
      endIdx == indexOf(content, MARKER_END)
  IN IF startIdx = 0 \/ endIdx = 0 THEN <<>>
     ELSE SelectSeq(SubSeq(content, startIdx + 1, endIdx - 1),
                    LAMBDA x : x.k \in {"0.0.0.0", "::"})

oneRegion(content, st, t) ==
  LET n == IF st.shieldActive /\ getDomainsToBlock(st, t) # <<>> THEN 1 ELSE 0
  IN countOf(content, MARKER_START) = n /\ countOf(content, MARKER_END) = n

noDuplicates(list) == \A i, j \in DOMAIN list : i # j => list[i] # list[j]

RECURSIVE linesOf(_)
\* the lines of a text; a last line without its line break is a line
linesOf(content) ==
  IF content = <<>> THEN <<>>
  ELSE LET i == indexOf(content, Nl)
       IN IF i = 0 THEN <<content>>
          ELSE <<SubSeq(content, 1, i - 1)>> \o linesOf(SubSeq(content, i + 1, Len(content)))

\* C24 (as claimed): applying the region and then clearing it leaves the lines
\* outside the sentinels as they were in the file before.
C24_SentinelSafety ==
  \A st \in HostsStates :
    (st.shieldActive /\ getDomainsToBlock(st, now) # <<>>) =>
      LET applied == updateHostsText(hostsFile, st, now)
          cleared == updateHostsText(applied, [st EXCEPT !.shieldActive = FALSE], now)
      IN linesOf(removeExistingBlock(cleared)) = linesOf(removeExistingBlock(hostsFile))

\* C25: every update of the packet filter leaves the two reference lines of
\* the anchor in the filter configuration exactly once, and no run of the
\* update or of enable-pf.sh ever leaves them more than once.
C25_AnchorOnce ==
  [][/\ PfUpdate => (countOf(pfConf', AnchorLine) = 1 /\ countOf(pfConf', LoadLine) = 1)
     /\ countOf(pfConf', AnchorLine) <= 1
     /\ countOf(pfConf', LoadLine) <= 1
     /\ includesAnchorName(pfConf') =>
          (countOf(updatePfConf(pfConf'), AnchorLine) = 1 /\ countOf(updatePfConf(pfConf'), LoadLine) = 1)]_vars

\* the reference is there, and the administrator has written after it
C25_Witness ==
  /\ countOf(pfConf, AnchorLine) = 1
  /\ countOf(pfConf, LoadLine) = 1
  /\ pfConf[Len(pfConf)] = Txt

\* the names the variant table of the specification gives one domain
tableVariants(d) ==
  {d, prependWww(d)}
  \cup (IF d = yt THEN {<<"m", "youtube", "com">>, <<"music", "youtube", "com">>,
                        <<"youtu", "be">>, <<"youtube-nocookie", "com">>} ELSE {})
  \cup (IF d \in {tw, <<"x", "com">>}
          THEN {<<"mobile", "twitter", "com">>, <<"mobile", "x", "com">>} ELSE {})
  \cup (IF d = <<"reddit", "com">>
          THEN {<<"old", "reddit", "com">>, <<"new", "reddit", "com">>, <<"i", "reddit", "com">>}
          ELSE {})
  \cup (IF d = fb
          THEN {<<"m", "facebook", "com">>, <<"mobile", "facebook", "com">>,
                <<"touch", "facebook", "com">>, <<"web", "facebook", "com">>} ELSE {})
  \cup (IF d = <<"instagram", "com">>
          THEN {<<"m", "instagram", "com">>, <<"i", "instagram", "com">>,
                <<"graph", "instagram", "com">>} ELSE {})
  \cup (IF d = <<"tiktok", "com">>
          THEN {<<"m", "tiktok", "com">>, <<"www", "tiktok", "com">>, <<"vm", "tiktok", "com">>}
          ELSE {})

\* C29 (as claimed): after an update under an active shield the region holds
\* exactly the names of the variant table for the effective domains, each as
\* one 0.0.0.0 line and one :: line.
C29_VariantExpansion ==
  [][\A st \in HostsStates :
       (HostsUpdate(st) /\ st.shieldActive) =>
         LET names == UNION {tableVariants(d) : d \in Range(getDomainsToBlock(st, now'))}
         IN /\ {x.name : x \in Range(regionEntries(hostsFile'))} = names
            /\ \A n \in names : /\ countOf(hostsFile', v4Line(n)) = 1
                                /\ countOf(hostsFile', v6Line(n)) = 1]_vars

\* ------------------------------------------------ claims: store set operations

sameCanonical(d) == {e \in StoreDomains : normalizeDomain(e) = normalizeDomain(d)}

\* C26: after revoke, add_block, remove_block, add_delay or remove_delay for d,
\* the same operation for any spelling of d leaves the stored lists as they are.
C26_SetOpsIdempotent ==
  [][\A d \in StoreDomains, e \in StoreDomains :
       normalizeDomain(e) = normalizeDomain(d) =>
         /\ StoreRevoke(d) => revokeAllowance(allowances', e) = allowances'
         /\ StoreAddBlocked(d) => addBlockedDomain(blockedDomains', e) = blockedDomains'
         /\ StoreRemoveBlocked(d) => removeBlockedDomain(blockedDomains', e) = blockedDomains'
         /\ StoreAddDelayed(d) => addDelayedDomain(delayedDomains', e) = delayedDomains'
         /\ StoreRemoveDelayed(d) => removeDelayedDomain(delayedDomains', e) = delayedDomains']_vars

\* twitter.com was added to the delay list and taken off the blocklist, next
\* to entries that stayed
C26_Witness ==
  /\ delayedDomains = <<(<<"gmail", "com">>), tw>>
  /\ blockedDomains = <<mobileTw>>
  /\ \E a \in Range(allowances) : a.domain = mobileTw
  /\ \A a \in Range(allowances) : a.domain # tw

\* ------------------------------------------------------- claims: validation

rejected ==
  /\ resp'.status = "400"
  /\ UNCHANGED <<blockedDomains, delayedDomains, allowances, agentVars>>

\* C27 (as claimed): a block, grant or delay request with a malformed domain,
\* or a grant whose minutes are out of range, is answered with an error and
\* changes neither the lists of the store nor the agent.
C27_MalformedRejected ==
  [][/\ \A d \in MalformedDomains :
          /\ RestBlock(d) => rejected
          /\ RestDelay(d) => rejected
          /\ \A m \in BodyMinutes : RestGrant(d, m) => rejected
     /\ \A m \in BodyMinutes :
          (RestGrant(tw, m) /\ (m < 1 \/ m > MaxToolMinutes)) => rejected]_vars

\* ------------------------------------------------- claims: remote tool auth

mcpRejected ==
  /\ resp'.status = "401"
  /\ UNCHANGED <<sessions, blockedDomains, agentSurface, dynamicRules>>

\* a step of the server between its start and its end is a request to the
\* tool endpoint: one whose credentials do not satisfy carries(header, query)
\* is answered 401, opens no session and runs no tool
withoutTokenRejected(carries(_, _)) ==
  ( /\ srvPhase = "running" /\ srvPhase' = "running"
    /\ tokenFile' = tokenFile /\ aPhase' = aPhase
    /\ resp'.op \in {"POST /mcp", "GET /mcp", "DELETE /mcp"}
    /\ ~carries(mcpRequest'.header, mcpRequest'.query) ) => mcpRejected

\* the token the file holds: its text without the line breaks around it
fileToken(text) == SelectSeq(text, LAMBDA piece : piece # Nl)

\* a start of the server generates a token only when there is no token file,
\* and otherwise takes the token of the file (or of the environment) and
\* leaves the file as it is
tokenKept ==
  (srvPhase = "stopped" /\ srvPhase' = "running") =>
    /\ tokenFile # <<>> =>
         /\ tokenFile' = tokenFile
         /\ MCP_TOKEN' = fileToken(tokenFile) \/ MCP_TOKEN' \in EnvTokens \ {<<>>}
    /\ tokenFile' # tokenFile =>
         tokenFile = <<>> /\ tokenFile' = MCP_TOKEN' /\ MCP_TOKEN' \in {<<t>> : t \in Tokens}

\* "Authorization: Bearer <tok>" or "?token=<tok>" with the stored token
carriesBearerOrQuery(h, q) ==
  /\ MCP_TOKEN # <<>>
  /\ h = <<Bearer>> \o MCP_TOKEN \/ q = MCP_TOKEN

carriesToken(h, q) ==
  /\ MCP_TOKEN # <<>>
  /\ h = <<Bearer>> \o MCP_TOKEN \/ h = MCP_TOKEN \/ q = MCP_TOKEN

ruleTagged(rules, d) == \E r \in rules : r.domain = normalizeDomain(d)

\* C30 (as claimed): with the shield active and the agent reachable, after a
\* successful POST /api/block for d, and after a DELETE /api/grant/d, the
\* dynamic anchor holds a rule tagged with d.
C30_RestCascade ==
  [][(now' = now /\ srvPhase = "running" /\ shieldActive /\ isDaemonRunning) =>
       \A d \in ServerDomains :
         /\ (resp'.op = "POST /api/block" /\ resp'.status = "200" /\ RestBlock(d))
              => ruleTagged(dynamicRules', d)
         /\ (resp'.op = "DELETE /api/grant" /\ RestRevoke(d))
              => ruleTagged(dynamicRules', d)]_vars

\* ------------------------------------------------- claims: revoke cascade

hasAllowance(st, d) ==
  \E a \in Range(st.allowances) : toLowerCase(a.domain) = toLowerCase(d)

inMirror(st, d) ==
  \E e \in Range(st.blockedDomains) : toLowerCase(e) = toLowerCase(d)

C32_SelectiveRemoval ==
  [][/\ \A d \in RuleDomains, m \in 1..MaxMinutes :
          AgentGrant(d, m) =>
            dynamicRules' = {r \in dynamicRules : r.domain # toLowerCase(d)}
     /\ \A d \in RuleDomains, ips \in ResolveOutcomes :
          AgentRevoke(d, ips) =>
            /\ dynamicRules \subseteq dynamicRules'
            /\ \A r \in dynamicRules' \ dynamicRules :
                 r.domain = toLowerCase(d) /\ r.ip \in ips]_vars

\* --------------------------------------------------- claims: shield toggle

\* an /enable that finds the state as the last /disable left it
enableAfterDisable ==
  /\ aPhase = "serving" /\ now' = now
  /\ beforeDisable.shield /\ state = beforeDisable.after
  /\ state'.shieldActive /\ beforeDisable' = beforeDisable

disableKeepsPolicy ==
  \* stuttering aside, a step that leaves the shield off after it was on is /disable
  ((aPhase = "serving" /\ now' = now /\ state.shieldActive /\ ~state'.shieldActive) =>
     /\ state'.blockedDomains = state.blockedDomains
     /\ state'.allowances = state.allowances
     /\ stateFile' = saveState(state')
     /\ hostRegion' = {})

\* C33 (as claimed): /disable changes the shield flag and the surfaces only,
\* and a /disable followed by /enable with no operation in between gives the
\* host region exactly the names it had before the /disable.
C33_ToggleAsClaimed ==
  [][disableKeepsPolicy /\ (enableAfterDisable => hostRegion' = beforeDisable.region)]_vars

\* C33 (amended): /disable changes the shield flag and the surfaces only, and
\* a /disable followed by /enable with no operation in between gives the host
\* region the names of the mirrored policy at the time of the /enable: the
\* names it had before the /disable when these were the names of the policy
\* and no allowance has run out since.
C33_ToggleRetainsPolicy ==
  [][/\ disableKeepsPolicy
     /\ enableAfterDisable =>
          /\ hostRegion' = updateHostsFile(shieldSet(beforeDisable.after, TRUE), now)
          /\ (beforeDisable.region = updateHostsFile(shieldSet(beforeDisable.after, TRUE), now))
               => hostRegion' = beforeDisable.region]_vars

\* the shield is back on after a /disable and the region holds what it held
C33_Witness ==
  /\ beforeDisable.shield /\ beforeDisable.region # {}
  /\ state = shieldSet(beforeDisable.after, TRUE)
  /\ hostRegion = beforeDisable.region
  /\ state.allowances # <<>>

\* -------------------------------------------------- claims: server startup

serverStarts == srvPhase = "stopped" /\ srvPhase' = "running"

\* C34 (as claimed): at startup the control server sends `blocklist` and then
\* `enable` only when the persisted shield flag is true, and its own shield
\* flag is true afterwards only if the agent took both calls.
C34_StartupHonoursFlag ==
  [][serverStarts =>
       /\ (isDaemonRunning /\ ~state.shieldActive) =>
             (state' = state /\ hostRegion' = hostRegion /\ ~shieldActive')
       /\ shieldActive' =>
             (isDaemonRunning /\ state'.shieldActive
                /\ state'.blockedDomains = blockedDomains)]_vars

\* ------------------------------------------------ claims: progressive delay

\* C35: after n accesses recorded for a domain on the current day,
\* getDelaySeconds answers min(10 * 2^n, 160); after the date has changed it
\* answers 10 again, and the next recordDelayAccess sets the count to 1.
C35_DelayProgression ==
  [][(today' = today) =>
       /\ (delayLog'.recorded = delayLog.recorded) =>
            delayLog'.seconds =
              IF delayLog'.asked = <<>> THEN 0
              ELSE min(10 * pow2(delayLog'.recorded[delayLog'.asked]), 160)
       /\ \A d \in DelayCanonical :
            (delayLog'.recorded[d] # delayLog.recorded[d]) =>
               delaySessions'[findIndex(delaySessions', d)].accessCount = delayLog'.recorded[d]]_vars

\* a session of the day before was asked for after the date changed: it is set
\* back, the answer is 10 s, and the day before it had reached the cap
C35_Witness ==
  /\ today = 1
  /\ delayLog.asked = gm /\ delayLog.seconds = 10 /\ delayLog.recorded[gm] = 0
  /\ \E i \in 1..Len(delaySessions) :
       /\ delaySessions[i].domain = gm
       /\ delaySessions[i].accessCount = 0 /\ delaySessions[i].lastResetDate = 1
  /\ \E i \in 1..Len(delaySessions) :
       /\ delaySessions[i].domain = tw
       /\ delaySessions[i].accessCount = 5 /\ delaySessions[i].lastResetDate = 0

\* ------------------------------------------------ claims: concurrent requests

\* C36 (as claimed): once all the block and unblock requests that ran side by
\* side have been answered, with the shield active and the agent reachable,
\* the agent's mirrored blocklist is the blocklist the server has stored.
C36_LastWriterAgrees ==
  [][(pending # {} /\ pending' = {} /\ shieldActive /\ isDaemonRunning) =>
       state'.blockedDomains = blockedDomains']_vars

\* ------------------------------------------------ claims: shield agreement

\* the shield flag of the agent: the one in memory, or the persisted one
\* while the agent is down
agentShield(st, file, phase) ==
  IF phase = "serving" THEN st.shieldActive ELSE loadState(DefaultState, file).shieldActive

\* C37 (as claimed): after every completed POST /api/shield/enable and
\* POST /api/shield/disable, whatever became of the call to the agent, the
\* control server's shield flag equals the agent's shield flag.
C37_ShieldFlagsAgree ==
  [][((resp'.op = "POST /api/shield/enable" /\ RestShieldEnable)
        \/ (resp'.op = "POST /api/shield/disable" /\ RestShieldDisable)) =>
       shieldActive' = agentShield(state', stateFile', aPhase')]_vars

\* ------------------------------------------------- claims: mirror durability

C39_SameEffectiveSet ==
  Range(getDomainsToBlock([blockedDomains |-> blockedDomains, allowances |-> allowances,
                           shieldActive |-> TRUE], now))
    = Range(getEffectivelyBlockedDomains(blockedDomains, allowances, now))

\* ------------------------------------------------- claims: sweep cascades

\* C40 (as claimed): the expiry sweep runs the revoke cascade for a domain
\* only when the allowance of that domain has ended by its timer since the
\* sweep before; after an explicit revoke, after clear, and after a new grant
\* there is no further cascade at the next sweep.
C40_SweepCascadesOnlyExpired ==
  [][\A d \in AllowanceDomains :
       sweepCascades'[d] > sweepCascades[d] => expiredAt[d] # -1]_vars

=============================================================================
